---- MODULE Spec2Model ----
(***************************************************************************)
(* Recipe scraper: the orchestrator (scraper/service.py), the failure      *)
(* ledger (scraper/repository.py), the Recipe record conversions           *)
(* (scraper/models.py), listing discovery and article extraction           *)
(* (scraper/extractors.py).                                                *)
(*                                                                         *)
(* These specifications share the module:                                  *)
(*   Spec          one RecipeScraperService.run() over a ledger            *)
(*   SpecReplay    the replay phase of run(), running on                   *)
(*   SpecDiscover  one ListingScraper.discover(template)                   *)
(*   SpecExtract   one ArticleScraper.scrape(template, url)                *)
(*   SpecAnchors   the anchors of the recipes of one multi-recipe page     *)
(*   SpecPage      the links _scrape_listing takes from one listing page   *)
(*   SpecSitemaps  one ListingScraper._discover_from_sitemaps(template)    *)
(*   SpecSitemapsLive  the same, with the loop running on                  *)
(*   SpecCrawl     one ListingScraper._scrape_listing(url, listing)        *)
(*   SpecFields    one field of ArticleScraper._populate_from_selectors    *)
(*   SpecLedger    calls of record_failure and resolve_failure, one after  *)
(*                 the other and then from two writers at once             *)
(* Each leaves the variables of the others at their idle value.            *)
(***************************************************************************)
EXTENDS Integers, Sequences, FiniteSets, TLC

VARIABLES
    \* ---- Spec: service.py / repository.py
    phase,      \* position of run(): "idle","replay","scrape","done","raised"
    ledger,     \* rows of table scrape_failures
    pending,    \* list(iter_pending_failures()) not yet replayed
    tIdx,       \* index of the template run() is at
    urlsLeft,   \* rest of sorted(article_urls) of the current template
    saves,      \* log: every call of repository.save
    scrapes,    \* log: every call of article_scraper.scrape
    discovers,  \* log: every call of listing_scraper.discover
    last,       \* the handler step that ran last, with the log lengths before it
    recorded,   \* <<row id, Recipe>>: the object whose as_record() the row's context holds
    priorCalls, \* ledger calls made by earlier runs
    \* ---- SpecDiscover: ListingScraper.discover
    dpc,          \* position of discover(): "off","sitemaps","listings","end","returned","raised"
    dTemplate,    \* the template and scraper configuration of the call
    dDiscovered,  \* discovered
    dHadError,    \* had_listing_error
    dHadResults,  \* had_listing_results
    dListingIdx,  \* listings of template.listings already crawled
    dResult,      \* the set discover returned
    dSitemapError,\* a sitemap fetch raised inside _discover_from_sitemaps
    dYields,      \* what each strategy that ran yielded
    \* ---- SpecExtract: ArticleScraper.scrape
    xpc,          \* position of scrape(): "off","fetch", a tier, "validate","end","returned","raised"
    xPage,        \* what the fetched page holds for each tier
    xIndex,       \* index of the candidate of the loop of scrape
    xRecipe,      \* recipe, the candidate being populated
    xRecipes,     \* recipes
    xResult,      \* the exception scrape raised, "none" without one
    xFilled,      \* per field, the first non-empty value the candidate received
    xCandidates,  \* every candidate that reached validation, with its xFilled
    aUrl,         \* response.url of the page whose candidates get their anchors
    aCandidates,  \* per candidate: the section's id and title, and recipe.title
    aUsed,        \* used_anchors
    aSourceUrls,  \* recipe.source_url of the candidates handled so far
    \* ---- SpecPage: one listing page inside ListingScraper._scrape_listing
    ppc,          \* position: "off","selector","fallback","done"
    pPage,        \* the fetched page: response.url, the hrefs the link selector matches,
                  \* the nodes of its JSON-LD
    pUrls,        \* page_urls
    pConsulted,   \* _extract_listing_links_from_jsonld was called for the page
    \* ---- SpecSitemaps: ListingScraper._discover_from_sitemaps
    mpc,          \* position: "off","loop","returned"
    mSite,        \* what the site answers for each sitemap URL
    mQueue,       \* queue
    mVisited,     \* visited
    mArticles,    \* article_urls
    mFetches,     \* log: every sitemap URL handed to http.get
    \* ---- SpecCrawl: ListingScraper._scrape_listing
    cpc,          \* position: "off","loop","returned","raised"
    cListing,     \* the listing spec and max_pages of the scraper
    cSite,        \* what the site has answered so far: redirects and page contents
    cQueue,       \* queue, each URL with the number of pagination links that led to it
    cQueued,      \* queued_pages
    cSeen,        \* pages_seen
    cArticles,    \* article_urls
    cProcessed,   \* pages_processed
    cFetches,     \* log: every URL handed to http.get, with its depth
    \* ---- SpecFields: one field of ArticleScraper._populate_from_selectors
    fpc,          \* position: "off","field","done"
    fInput,       \* the field, its selector list, the two documents, the recipe's value
    fValue,       \* getattr(recipe, field)
    fSoup,        \* index in soups_to_try of the document that gave the value, 0 if none
    \* ---- SpecLedger: clients of table scrape_failures
    lpc,          \* position: "off","calls","race"
    lRows,        \* committed rows of table scrape_failures
    lCalls,       \* per tuple, the record_failure calls made for it
    lCount,       \* calls made one after the other
    lWriters,     \* the two concurrent writers: position, failure, uncommitted row
    lRows0        \* the committed rows when the two writers started

svcVars == <<phase, ledger, pending, tIdx, urlsLeft, saves, scrapes, discovers, last, recorded,
            priorCalls>>
discVars == <<dpc, dTemplate, dDiscovered, dHadError, dHadResults, dListingIdx, dResult,
             dSitemapError, dYields>>
extVars == <<xpc, xPage, xIndex, xRecipe, xRecipes, xResult, xFilled, xCandidates>>
ancVars == <<aUrl, aCandidates, aUsed, aSourceUrls>>
pageVars == <<ppc, pPage, pUrls, pConsulted>>
mapVars == <<mpc, mSite, mQueue, mVisited, mArticles, mFetches>>
crawlVars == <<cpc, cListing, cSite, cQueue, cQueued, cSeen, cArticles, cProcessed, cFetches>>
fieldVars == <<fpc, fInput, fValue, fSoup>>
ledgerVars == <<lpc, lRows, lCalls, lCount, lWriters, lRows0>>
vars == <<svcVars, discVars, extVars, ancVars, pageVars, mapVars, crawlVars, fieldVars,
         ledgerVars>>
\* what the steps of one specification leave alone
notSvcVars == <<discVars, extVars, ancVars, pageVars, mapVars, crawlVars,
    fieldVars, ledgerVars>>
notDiscVars == <<svcVars, extVars, ancVars, pageVars, mapVars, crawlVars,
    fieldVars, ledgerVars>>
notExtVars == <<svcVars, discVars, ancVars, pageVars, mapVars, crawlVars,
    fieldVars, ledgerVars>>
notAncVars == <<svcVars, discVars, extVars, pageVars, mapVars, crawlVars,
    fieldVars, ledgerVars>>
notPageVars == <<svcVars, discVars, extVars, ancVars, mapVars, crawlVars,
    fieldVars, ledgerVars>>
notMapVars == <<svcVars, discVars, extVars, ancVars, pageVars, crawlVars,
    fieldVars, ledgerVars>>
notCrawlVars == <<svcVars, discVars, extVars, ancVars, pageVars, mapVars,
    fieldVars, ledgerVars>>
notFieldVars == <<svcVars, discVars, extVars, ancVars, pageVars, mapVars, crawlVars,
    ledgerVars>>
notLedgerVars == <<svcVars, discVars, extVars, ancVars, pageVars, mapVars, crawlVars,
    fieldVars>>

----------------------------------------------------------------------------
(* Bounds of the model. *)

\* ledger calls (record_failure, resolve_failure) made by earlier runs
MaxPrior == 2
\* recipes one page bundles at most
MaxRecipes == 2
\* listing specs of a template
MaxListings == 2
\* candidates of one page that get an anchor
MaxAnchors == 3
\* a small sitemap_max_urls, next to the default 2000
MaxSitemapUrls == 2
\* the largest max_pages of a listing scraper
MaxPages == 4
\* selectors in the selector list of one field
MaxSelectors == 2
\* ledger calls made one after the other before two writers call at once
MaxCalls == 3

----------------------------------------------------------------------------
(* Python values.  Optional[str] is None or a str; JSON text keeps the     *)
(* difference between null and a string.                                   *)

PyNone == [py |-> "None"]
PyStr(s) == [py |-> "str", s |-> s]

\* bool(value) of an Optional[str]
Truthy(v) == v.py = "str" /\ v.s # ""

----------------------------------------------------------------------------
(* URLs.  A URL is its site, its path on the site and its fragment         *)
(* (0: none); long tells that the part before the fragment is 255          *)
(* characters or more, so that the fragment lies beyond the 255th.         *)

Url(site, path, frag, long) == [site |-> site, path |-> path, frag |-> frag, long |-> long]

\* the leading 255 characters, which is what the index uniq_failure keys on
Prefix255(u) == IF u.long THEN [u EXCEPT !.frag = 0] ELSE u

\* order of str values, as sorted() sees them
UrlLess(u, v) ==
    \/ u.site < v.site
    \/ u.site = v.site /\ u.path < v.path
    \/ u.site = v.site /\ u.path = v.path /\ u.frag < v.frag

RECURSIVE SortedUrls(_)
SortedUrls(S) ==
    IF S = {} THEN <<>>
    ELSE LET m == CHOOSE u \in S : \A v \in S \ {u} : UrlLess(u, v)
         IN  <<m>> \o SortedUrls(S \ {m})

----------------------------------------------------------------------------
(* Templates (models.RecipeTemplate) the service is constructed with, and  *)
(* the pages of their sites.                                               *)

Templates == << [name |-> "T1", url |-> Url(1, 0, 0, FALSE)],
                [name |-> "T2", url |-> Url(2, 0, 0, FALSE)] >>

\* a template of an earlier run that this run is not constructed with
UnknownTemplate == [name |-> "T0", url |-> Url(0, 0, 0, FALSE)]

\* article pages of a template's site: path 1 is short, path 2 is long
ArticleUrls(t) ==
    IF t.name = "T1" THEN {Url(t.url.site, 1, 0, FALSE), Url(t.url.site, 2, 0, TRUE)}
    ELSE {Url(t.url.site, 1, 0, FALSE)}

----------------------------------------------------------------------------
(* models.Recipe and its conversions.  A Recipe object carries py =        *)
(* "Recipe"; the dict of as_record has the fifteen keys and nothing else;  *)
(* JSON text tags every value with its JSON type.                          *)

OptionalFields == {"title", "description", "prep_time", "cook_time", "total_time",
                   "servings", "image", "author"}
ListFields == {"ingredients", "instructions", "categories", "tags"}

Recipe(name, url) ==
    [py |-> "Recipe", source_name |-> name, source_url |-> url,
     title |-> PyNone, description |-> PyNone,
     ingredients |-> <<>>, instructions |-> <<>>,
     prep_time |-> PyNone, cook_time |-> PyNone, total_time |-> PyNone,
     servings |-> PyNone, image |-> PyNone, author |-> PyNone,
     categories |-> <<>>, tags |-> <<>>, raw |-> {}]

as_record(r) ==
    [source_name |-> r.source_name, source_url |-> r.source_url,
     title |-> r.title, description |-> r.description,
     ingredients |-> r.ingredients, instructions |-> r.instructions,
     prep_time |-> r.prep_time, cook_time |-> r.cook_time,
     total_time |-> r.total_time, servings |-> r.servings,
     image |-> r.image, author |-> r.author,
     categories |-> r.categories, tags |-> r.tags, raw |-> r.raw]

JsonNull == [js |-> "null"]
JsonString(s) == [js |-> "string", s |-> s]
JsonOfOptional(v) == IF v.py = "None" THEN JsonNull ELSE JsonString(v.s)
JsonOfList(l) == [js |-> "array", items |-> [i \in 1..Len(l) |-> JsonString(l[i])]]
JsonOfDict(d) == [js |-> "object", members |-> {<<kv[1], JsonString(kv[2])>> : kv \in d}]

\* json.dumps of the dict of as_record
JsonOfRecord(d) ==
    [js |-> "object",
     source_name |-> JsonString(d.source_name), source_url |-> JsonString(d.source_url),
     title |-> JsonOfOptional(d.title), description |-> JsonOfOptional(d.description),
     ingredients |-> JsonOfList(d.ingredients), instructions |-> JsonOfList(d.instructions),
     prep_time |-> JsonOfOptional(d.prep_time), cook_time |-> JsonOfOptional(d.cook_time),
     total_time |-> JsonOfOptional(d.total_time), servings |-> JsonOfOptional(d.servings),
     image |-> JsonOfOptional(d.image), author |-> JsonOfOptional(d.author),
     categories |-> JsonOfList(d.categories), tags |-> JsonOfList(d.tags),
     raw |-> JsonOfDict(d.raw)]

\* MySqlRecipeRepository._to_json_text of a failure context: {} or {"recipe": record}
to_json_text(context) ==
    [js |-> "object", members |-> {<<kv[1], JsonOfRecord(kv[2])>> : kv \in context}]

\* MySqlRecipeRepository._from_json_text: the dict json.loads gives, values still JSON-typed
from_json_text(text) == text.members

\* dict.get(key, default)
DictGet(d, key, default) ==
    IF \E kv \in d : kv[1] = key THEN (CHOOSE kv \in d : kv[1] = key)[2] ELSE default

\* payload.get(name): None for null
PyOptional(j) == IF j.js = "null" THEN PyNone ELSE PyStr(j.s)
\* list(payload.get(name, []) or [])
PyList(j) == IF j.js = "null" THEN <<>> ELSE [i \in 1..Len(j.items) |-> j.items[i].s]
\* dict(payload.get("raw", {}) or {})
PyDict(j) == IF j.js = "null" THEN {} ELSE {<<kv[1], kv[2].s>> : kv \in j.members}
\* str(payload.get(name, ""))
PyStrOf(j) == IF j.js = "null" THEN "None" ELSE j.s

from_record(payload) ==
    [py |-> "Recipe",
     source_name |-> PyStrOf(payload.source_name),
     source_url |-> PyStrOf(payload.source_url),
     title |-> PyOptional(payload.title), description |-> PyOptional(payload.description),
     ingredients |-> PyList(payload.ingredients), instructions |-> PyList(payload.instructions),
     prep_time |-> PyOptional(payload.prep_time), cook_time |-> PyOptional(payload.cook_time),
     total_time |-> PyOptional(payload.total_time), servings |-> PyOptional(payload.servings),
     image |-> PyOptional(payload.image), author |-> PyOptional(payload.author),
     categories |-> PyList(payload.categories), tags |-> PyList(payload.tags),
     raw |-> PyDict(payload.raw)]

----------------------------------------------------------------------------
(* The failure ledger: table scrape_failures of MySqlRecipeRepository.     *)
(* A row is [id, template_name, stage, source_url, context, attempt_count, *)
(* resolved]; error_message and the timestamps are left out.               *)

Stages == {"listing", "article", "persist"}

\* models.ScrapeFailure
ScrapeFailure(template_name, stage, source_url, context) ==
    [template_name |-> template_name, stage |-> stage,
     source_url |-> source_url, context |-> context]

\* UNIQUE KEY uniq_failure (template_name, stage, source_url(255))
UniqFailure(template_name, stage, source_url) ==
    <<template_name, stage, Prefix255(source_url)>>

RowKey(row) == UniqFailure(row.template_name, row.stage, row.source_url)

\* INSERT ... ON DUPLICATE KEY UPDATE: a plain INSERT that ignores the key
record_failure_insert_only(rows, failure) ==
    rows \cup {[id |-> Cardinality(rows) + 1,
                template_name |-> failure.template_name,
                stage |-> failure.stage,
                source_url |-> failure.source_url,
                context |-> to_json_text(failure.context),
                attempt_count |-> 1,
                resolved |-> FALSE]}

\* MySqlRecipeRepository.record_failure
record_failure(rows, failure) ==
    LET key == UniqFailure(failure.template_name, failure.stage, failure.source_url)
        hit == {row \in rows : RowKey(row) = key}
    IN  IF hit = {}
        THEN rows \cup {[id |-> Cardinality(rows) + 1,
                         template_name |-> failure.template_name,
                         stage |-> failure.stage,
                         source_url |-> failure.source_url,
                         context |-> to_json_text(failure.context),
                         attempt_count |-> 1,
                         resolved |-> FALSE]}
        ELSE (rows \ hit) \cup
             {[row EXCEPT !.context = to_json_text(failure.context),
                          !.attempt_count = row.attempt_count + 1,
                          !.resolved = FALSE] : row \in hit}

\* resolve_failure without connection.commit(): the UPDATE is rolled back on close
resolve_failure_no_commit(rows, template_name, stage, source_url) == rows

\* MySqlRecipeRepository.resolve_failure: WHERE compares the whole source_url
resolve_failure(rows, template_name, stage, source_url) ==
    {IF row.template_name = template_name /\ row.stage = stage
        /\ row.source_url = source_url
     THEN [row EXCEPT !.resolved = TRUE] ELSE row : row \in rows}

\* models.PendingFailure built by iter_pending_failures from one row
PendingFailure(row) ==
    [id |-> row.id, template_name |-> row.template_name, stage |-> row.stage,
     source_url |-> row.source_url, context |-> from_json_text(row.context),
     attempt_count |-> row.attempt_count]

\* MySqlRecipeRepository.iter_pending_failures: WHERE resolved = 0
iter_pending_failures(rows) == {PendingFailure(row) : row \in {r \in rows : ~r.resolved}}

----------------------------------------------------------------------------
(* What the collaborators of the service can answer.                       *)

\* a Recipe that passed ArticleScraper._validate_recipe, with its title and lists filled
FullRecipe(name, url) ==
    [Recipe(name, url) EXCEPT !.title = PyStr("Soup"), !.ingredients = <<"salt", "water">>,
                              !.instructions = <<"boil">>, !.image = PyStr("soup.jpg"),
                              !.tags = <<"easy">>, !.raw = {<<"json_ld", "node">>}]

\* a Recipe that passed validation with instructions only: no title, no ingredients
ThinRecipe(name, url) == [Recipe(name, url) EXCEPT !.instructions = <<"boil">>]

\* response.url of a redirected fetch: another page of the site
Redirected(u) == [u EXCEPT !.path = 0 - u.path]

\* source_url of the index-th recipe of a page that bundles several
Anchored(u, index) == [u EXCEPT !.frag = index]

\* ArticleScraper.scrape(template, url): raises, or returns a List[Recipe]
ScrapeOutcomes(t, u) ==
    {[raised |-> TRUE]}
    \cup {[raised |-> FALSE, value |-> [py |-> "list", items |-> <<r>>]] :
            r \in {FullRecipe(t.name, u), ThinRecipe(t.name, u),
                   FullRecipe(t.name, Redirected(u))}}
    \cup {[raised |-> FALSE,
           value |-> [py |-> "list",
                      items |-> [i \in 1..k |-> FullRecipe(t.name, Anchored(u, i))]]] :
            k \in 2..MaxRecipes}

\* ListingScraper.discover(template): raises, or returns a non-empty Set[str]
DiscoverOutcomes(t) ==
    {[raised |-> TRUE]}
    \cup {[raised |-> FALSE, urls |-> S] : S \in (SUBSET ArticleUrls(t)) \ {{}}}

----------------------------------------------------------------------------
(* Steps of the service.  A world is what one handler reads and writes:    *)
(* the ledger, the call logs, and raised, which tells that an exception    *)
(* left the handler.                                                       *)

World == [ledger |-> ledger, saves |-> saves, scrapes |-> scrapes,
          recorded |-> recorded, raised |-> FALSE]

\* repository.save(value): as_record() raises on anything that is no Recipe
Save(w, value, dbRaises) ==
    [w EXCEPT !.saves = Append(@, [value |-> value,
                                   raised |-> (value.py # "Recipe" \/ dbRaises)])]

SaveRaised(w) == w.saves[Len(w.saves)].raised

Scrape(w, t, u, where, res) ==
    [w EXCEPT !.scrapes = Append(@, [template |-> t.name, url |-> u, where |-> where,
                                     res |-> res])]

RecordFailure(w, failure) == [w EXCEPT !.ledger = record_failure(@, failure)]

ResolveFailure(w, template_name, stage, source_url) ==
    [w EXCEPT !.ledger = resolve_failure(@, template_name, stage, source_url)]

\* record_failure(ScrapeFailure(stage="persist", context={"recipe": recipe.as_record()}))
RecordPersistFailure(w, t, recipe) ==
    LET rows == record_failure(w.ledger,
                    ScrapeFailure(t.name, "persist", recipe.source_url,
                                  {<<"recipe", as_record(recipe)>>}))
        key == UniqFailure(t.name, "persist", recipe.source_url)
        id == (CHOOSE row \in rows : RowKey(row) = key).id
    IN  [w EXCEPT !.ledger = rows,
                  !.recorded = {p \in @ : p[1] # id} \cup {<<id, recipe>>}]

\* a row whose source_url column is '' reads back as source_url None
NoUrl == Url(0 - 1, 0, 0, FALSE)

\* RecipeScraperService._scrape_template, lines 85-121: the body of the loop for one URL
scrape_article(w, t, url, res, dbRaises) ==
    LET w1 == Scrape(w, t, url, "normal", res)
    IN  IF res.raised
        THEN RecordFailure(w1, ScrapeFailure(t.name, "article", url, {}))
        ELSE LET recipe == res.value
             IN  IF recipe.py # "Recipe"
                 THEN [w1 EXCEPT !.raised = TRUE]      \* recipe.title: AttributeError
                 ELSE IF ~Truthy(recipe.title) /\ recipe.ingredients = <<>>
                 THEN w1
                 ELSE LET w2 == ResolveFailure(w1, t.name, "article", recipe.source_url)
                          w3 == Save(w2, recipe, dbRaises)
                      IN  IF ~SaveRaised(w3)
                          THEN ResolveFailure(w3, t.name, "persist", recipe.source_url)
                          ELSE RecordPersistFailure(w3, t, recipe)

\* RecipeScraperService._retry_article_failure
retry_article_failure(w, t, failure, res, dbRaises) ==
    LET url == failure.source_url
    IN  IF url = NoUrl THEN w
        ELSE
        LET w1 == Scrape(w, t, url, "replay", res)
        IN  IF res.raised
            THEN RecordFailure(w1, ScrapeFailure(t.name, "article", url, {}))
            ELSE LET recipe == res.value
                 IN  IF recipe.py # "Recipe"
                     THEN [w1 EXCEPT !.raised = TRUE]  \* recipe.title: AttributeError
                     ELSE IF ~Truthy(recipe.title) /\ recipe.ingredients = <<>>
                     THEN w1
                     ELSE LET w2 == ResolveFailure(w1, t.name, "article", recipe.source_url)
                              w3 == Save(w2, recipe, dbRaises)
                          IN  IF ~SaveRaised(w3)
                              THEN ResolveFailure(w3, t.name, "persist", recipe.source_url)
                              ELSE RecordPersistFailure(w3, t, recipe)

\* lines 248-266 of _retry_persist_failure: save the recipe, resolve or record again
persist_again(w, t, recipe, dbRaises) ==
    LET w1 == Save(w, recipe, dbRaises)
    IN  IF recipe.py # "Recipe"
        THEN [w1 EXCEPT !.raised = TRUE]   \* recipe.source_url in the except clause
        ELSE IF ~SaveRaised(w1)
        THEN ResolveFailure(w1, t.name, "persist", recipe.source_url)
        ELSE RecordPersistFailure(w1, t, recipe)

\* RecipeScraperService._retry_persist_failure
retry_persist_failure(w, t, failure, res, dbRaises) ==
    LET context == failure.context
        has_payload == \E kv \in context : kv[1] = "recipe"
    IN  IF has_payload
        THEN persist_again(w, t, from_record(DictGet(context, "recipe", PyNone)), dbRaises)
        ELSE IF failure.source_url # NoUrl
        THEN LET w1 == Scrape(w, t, failure.source_url, "replay", res)
             IN  IF res.raised
                 THEN RecordFailure(w1, ScrapeFailure(t.name, "article",
                                                      failure.source_url, {}))
                 ELSE persist_again(w1, t, res.value, dbRaises)
        ELSE w

\* self._templates_by_name.get(name): the template, or none
TemplateNames == {Templates[i].name : i \in 1..Len(Templates)}
TemplateByName(name) == CHOOSE t \in {Templates[i] : i \in 1..Len(Templates)} : t.name = name

----------------------------------------------------------------------------
(* Spec: earlier runs fill the ledger, then one run() of the service.      *)

DiscoverIdle ==
    /\ dpc = "off" /\ dTemplate = [listings |-> 0, enable_sitemaps |-> FALSE]
    /\ dDiscovered = {} /\ dHadError = FALSE /\ dHadResults = FALSE /\ dListingIdx = 0
    /\ dResult = {} /\ dSitemapError = FALSE /\ dYields = <<>>

ExtractIdle ==
    /\ xpc = "off" /\ xPage = [url |-> NoUrl] /\ xIndex = 0 /\ xRecipe = Recipe("", NoUrl)
    /\ xRecipes = <<>> /\ xResult = "none" /\ xFilled = Recipe("", NoUrl)
    /\ xCandidates = <<>>

AnchorsIdle == aUrl = NoUrl /\ aCandidates = <<>> /\ aUsed = {} /\ aSourceUrls = <<>>
PageIdle == ppc = "off" /\ pPage = [base_url |-> NoUrl] /\ pUrls = {} /\ pConsulted = FALSE
SitemapsIdle ==
    /\ mpc = "off" /\ mSite = <<>> /\ mQueue = <<>> /\ mVisited = {} /\ mArticles = {}
    /\ mFetches = <<>>
CrawlIdle ==
    /\ cpc = "off" /\ cListing = [url |-> NoUrl] /\ cSite = <<>> /\ cQueue = <<>>
    /\ cQueued = {} /\ cSeen = {} /\ cArticles = {} /\ cProcessed = 0 /\ cFetches = <<>>
FetchersIdle == PageIdle /\ SitemapsIdle /\ CrawlIdle
FieldsIdle == fpc = "off" /\ fInput = [field |-> ""] /\ fValue = PyNone /\ fSoup = 0
LedgerIdle ==
    /\ lpc = "off" /\ lRows = {} /\ lCalls = <<>> /\ lCount = 0 /\ lWriters = <<>>
    /\ lRows0 = {}
OthersIdle == FieldsIdle /\ LedgerIdle

NoStep == [kind |-> "none"]

Init ==
    /\ phase = "idle"
    /\ ledger = {}
    /\ pending = {}
    /\ tIdx = 0
    /\ urlsLeft = <<>>
    /\ saves = <<>>
    /\ scrapes = <<>>
    /\ discovers = <<>>
    /\ last = NoStep
    /\ recorded = {}
    /\ priorCalls = 0
    /\ DiscoverIdle
    /\ ExtractIdle
    /\ AnchorsIdle
    /\ OthersIdle
    /\ FetchersIdle

\* the handler's world becomes the state; an exception that left the handler ends run()
Commit(w, step) ==
    /\ ledger' = w.ledger
    /\ saves' = w.saves
    /\ scrapes' = w.scrapes
    /\ recorded' = w.recorded
    /\ phase' = IF w.raised THEN "raised" ELSE phase
    /\ last' = [step EXCEPT !.saves0 = Len(saves), !.scrapes0 = Len(scrapes),
                            !.ledger0 = ledger,
                            !.orig = {p[2] : p \in {q \in recorded : q[1] = step.failure.id}}]

\* no pending failure: the step is none of the replay; db tells that the database
\* refuses the INSERT of save during the step
NoFailure == [id |-> 0]

Step(kind, template, url, failure) ==
    [kind |-> kind, template |-> template, url |-> url, failure |-> failure,
     saves0 |-> 0, scrapes0 |-> 0, ledger0 |-> {}, orig |-> {}, db |-> FALSE]

\* recipes an earlier run extracted from a page and handed to save
PersistableRecipes(t) ==
    {FullRecipe(t.name, u) : u \in ArticleUrls(t)}
    \cup {FullRecipe(t.name, Anchored(u, 1)) : u \in {v \in ArticleUrls(t) : v.long}}

\* the tuples an earlier run of the service wrote failures for
PriorTuples(t) ==
    {<<"listing", t.url>>}
    \cup {<<"article", u>> : u \in ArticleUrls(t)}
    \cup {<<"persist", r.source_url>> : r \in PersistableRecipes(t)}

\* an earlier run recorded a listing or article failure
PriorRecordFailure ==
    /\ phase = "idle" /\ priorCalls < MaxPrior
    /\ \E t \in {Templates[1], Templates[2], UnknownTemplate} :
       \E tuple \in {x \in PriorTuples(t) : x[1] # "persist"} :
          /\ t.name = "T1" \/ tuple[1] = "article"
          /\ Commit(RecordFailure(World, ScrapeFailure(t.name, tuple[1], tuple[2], {})),
                    Step("prior_record", t.name, tuple[2], NoFailure))
    /\ priorCalls' = priorCalls + 1
    /\ UNCHANGED <<pending, tIdx, urlsLeft, discovers, notSvcVars>>

\* an earlier run recorded a persist failure with the recipe as context
PriorRecordPersistFailure ==
    /\ phase = "idle" /\ priorCalls < MaxPrior
    /\ \E t \in {Templates[1], UnknownTemplate} : \E r \in PersistableRecipes(t) :
          Commit(RecordPersistFailure(World, t, r),
                 Step("prior_record", t.name, r.source_url, NoFailure))
    /\ priorCalls' = priorCalls + 1
    /\ UNCHANGED <<pending, tIdx, urlsLeft, discovers, notSvcVars>>

\* an earlier run resolved a failure
PriorResolveFailure ==
    /\ phase = "idle" /\ priorCalls < MaxPrior
    /\ \E tuple \in PriorTuples(Templates[1]) :
          Commit(ResolveFailure(World, "T1", tuple[1], tuple[2]),
                 Step("prior_resolve", "T1", tuple[2], NoFailure))
    /\ priorCalls' = priorCalls + 1
    /\ UNCHANGED <<pending, tIdx, urlsLeft, discovers, notSvcVars>>

\* run(), line 58, and _replay_failures, line 133: the pending failures are read once
StartRun ==
    /\ phase = "idle"
    /\ phase' = "running"
    /\ pending' = iter_pending_failures(ledger)
    /\ last' = NoStep
    /\ UNCHANGED <<ledger, tIdx, urlsLeft, saves, scrapes, discovers, recorded, priorCalls,
                   notSvcVars>>

\* _replay_failures, lines 139-146: a failure of a template this run does not know
ReplayUnknownTemplate ==
    /\ phase = "running"
    /\ \E f \in pending :
          /\ f.template_name \notin TemplateNames
          /\ pending' = pending \ {f}
          /\ Commit(World, Step("replay_unknown", f.template_name, f.source_url, f))
    /\ UNCHANGED <<tIdx, urlsLeft, discovers, priorCalls, notSvcVars>>

\* the replay of an article failure that reads the pending failures again afterwards
replay_article_rereading ==
    /\ phase = "running"
    /\ \E f \in pending :
          /\ f.template_name \in TemplateNames /\ f.stage = "article"
          /\ LET t == TemplateByName(f.template_name)
             IN  \E res \in ScrapeOutcomes(t, f.source_url), dbRaises \in BOOLEAN :
                    Commit(retry_article_failure(World, t, f, res, dbRaises),
                           [Step("replay_article", t.name, f.source_url, f) EXCEPT !.db = dbRaises])
          /\ pending' = iter_pending_failures(ledger') \cup (pending \ {f})
    /\ UNCHANGED <<tIdx, urlsLeft, discovers, priorCalls, notSvcVars>>
\* _replay_failures, lines 147-148
ReplayArticle ==
    /\ phase = "running"
    /\ \E f \in pending :
          /\ f.template_name \in TemplateNames /\ f.stage = "article"
          /\ pending' = pending \ {f}
          /\ LET t == TemplateByName(f.template_name)
             IN  \E res \in ScrapeOutcomes(t, f.source_url), dbRaises \in BOOLEAN :
                    Commit(retry_article_failure(World, t, f, res, dbRaises),
                           [Step("replay_article", t.name, f.source_url, f) EXCEPT !.db = dbRaises])
    /\ UNCHANGED <<tIdx, urlsLeft, discovers, priorCalls, notSvcVars>>

\* _replay_failures, lines 149-150
ReplayPersist ==
    /\ phase = "running"
    /\ \E f \in pending :
          /\ f.template_name \in TemplateNames /\ f.stage = "persist"
          /\ pending' = pending \ {f}
          /\ LET t == TemplateByName(f.template_name)
             IN  \E res \in ScrapeOutcomes(t, f.source_url), dbRaises \in BOOLEAN :
                    Commit(retry_persist_failure(World, t, f, res, dbRaises),
                           [Step("replay_persist", t.name, f.source_url, f) EXCEPT !.db = dbRaises])
    /\ UNCHANGED <<tIdx, urlsLeft, discovers, priorCalls, notSvcVars>>

\* _replay_failures that resolves a pending listing failure instead of leaving it
replay_listing_resolving ==
    /\ phase = "running"
    /\ \E f \in pending :
          /\ f.template_name \in TemplateNames /\ f.stage = "listing"
          /\ pending' = pending \ {f}
          /\ Commit(ResolveFailure(World, f.template_name, "listing", f.source_url),
                    Step("replay_listing", f.template_name, f.source_url, f))
    /\ UNCHANGED <<tIdx, urlsLeft, discovers, priorCalls, notSvcVars>>

\* _replay_failures, lines 151-155: left to the normal pass
ReplayListing ==
    /\ phase = "running"
    /\ \E f \in pending :
          /\ f.template_name \in TemplateNames /\ f.stage = "listing"
          /\ pending' = pending \ {f}
          /\ Commit(World, Step("replay_listing", f.template_name, f.source_url, f))
    /\ UNCHANGED <<tIdx, urlsLeft, discovers, priorCalls, notSvcVars>>

\* _scrape_template, lines 65-77: discover raised
DiscoverRaises ==
    /\ phase = "running" /\ pending = {} /\ urlsLeft = <<>> /\ tIdx < Len(Templates)
    /\ LET t == Templates[tIdx + 1]
       IN  /\ discovers' = Append(discovers, [template |-> t.name, raised |-> TRUE,
                                              urls |-> {}])
           /\ Commit(RecordFailure(World, ScrapeFailure(t.name, "listing", t.url, {})),
                     Step("discover", t.name, t.url, NoFailure))
    /\ tIdx' = tIdx + 1
    /\ UNCHANGED <<pending, urlsLeft, priorCalls, notSvcVars>>

\* _scrape_template, lines 66 and 79-85: discover returned its URLs
DiscoverReturns ==
    /\ phase = "running" /\ pending = {} /\ urlsLeft = <<>> /\ tIdx < Len(Templates)
    /\ LET t == Templates[tIdx + 1]
       IN  \E res \in {o \in DiscoverOutcomes(t) : ~o.raised} :
              /\ discovers' = Append(discovers, [template |-> t.name, raised |-> FALSE,
                                                 urls |-> res.urls])
              /\ urlsLeft' = SortedUrls(res.urls)
              /\ Commit(ResolveFailure(World, t.name, "listing", t.url),
                        Step("discover", t.name, t.url, NoFailure))
    /\ tIdx' = tIdx + 1
    /\ UNCHANGED <<pending, priorCalls, notSvcVars>>

\* _scrape_template, lines 85-121: one URL of the loop
ScrapeArticle ==
    /\ phase = "running" /\ pending = {} /\ urlsLeft # <<>>
    /\ LET t == Templates[tIdx]
           url == Head(urlsLeft)
       IN  \E res \in ScrapeOutcomes(t, url), dbRaises \in BOOLEAN :
              Commit(scrape_article(World, t, url, res, dbRaises),
                     [Step("scrape_article", t.name, url, NoFailure) EXCEPT !.db = dbRaises])
    /\ urlsLeft' = Tail(urlsLeft)
    /\ UNCHANGED <<pending, tIdx, discovers, priorCalls, notSvcVars>>

\* run(), line 61: every template was processed
Finish ==
    /\ phase = "running" /\ pending = {} /\ urlsLeft = <<>> /\ tIdx = Len(Templates)
    /\ phase' = "done"
    /\ last' = NoStep
    /\ UNCHANGED <<ledger, pending, tIdx, urlsLeft, saves, scrapes, discovers, recorded,
                   priorCalls, notSvcVars>>

Next ==
    \/ PriorRecordFailure
    \/ PriorRecordPersistFailure
    \/ PriorResolveFailure
    \/ StartRun
    \/ ReplayUnknownTemplate
    \/ ReplayArticle
    \/ ReplayPersist
    \/ ReplayListing
    \/ DiscoverRaises
    \/ DiscoverReturns
    \/ ScrapeArticle
    \/ Finish

Spec == Init /\ [][Next]_vars

\* _replay_failures alone, after the calls of earlier runs
ReplayNext ==
    \/ PriorRecordFailure
    \/ PriorRecordPersistFailure
    \/ PriorResolveFailure
    \/ StartRun
    \/ ReplayUnknownTemplate
    \/ ReplayArticle
    \/ ReplayPersist
    \/ ReplayListing

\* _replay_failures is sequential code: while a step is possible the interpreter takes it
SpecReplay == Init /\ [][ReplayNext]_vars /\ WF_vars(ReplayNext)

----------------------------------------------------------------------------
(* SpecDiscover: one call ListingScraper.discover(template).  The sitemap  *)
(* pass and the crawl of one listing spec are steps whose outcome the site *)
(* decides: the URLs they yield, and whether a fetch raised.               *)

ServiceIdle ==
    /\ phase = "off" /\ ledger = {} /\ pending = {} /\ tIdx = 0 /\ urlsLeft = <<>>
    /\ saves = <<>> /\ scrapes = <<>> /\ discovers = <<>> /\ last = NoStep
    /\ recorded = {} /\ priorCalls = 0

\* article URLs the site of the template can yield to a strategy
SiteUrls == ArticleUrls(Templates[1])

DiscoverInit ==
    /\ dpc = "sitemaps"
    /\ dTemplate \in [listings : 0..MaxListings, enable_sitemaps : BOOLEAN]
    /\ dDiscovered = {} /\ dHadError = FALSE /\ dHadResults = FALSE /\ dListingIdx = 0
    /\ dResult = {} /\ dSitemapError = FALSE /\ dYields = <<>>
    /\ ServiceIdle
    /\ ExtractIdle
    /\ AnchorsIdle
    /\ OthersIdle
    /\ FetchersIdle

\* the sitemap pass of a discover that skips the listing specs once sitemaps gave URLs
discover_sitemaps_then_skip ==
    /\ dpc = "sitemaps"
    /\ IF dTemplate.enable_sitemaps
       THEN \E sitemap_urls \in SUBSET SiteUrls, fetchRaised \in BOOLEAN :
               /\ dDiscovered' = dDiscovered \cup sitemap_urls
               /\ dSitemapError' = fetchRaised
               /\ dYields' = Append(dYields, [strategy |-> "sitemaps", urls |-> sitemap_urls,
                                              raised |-> fetchRaised])
               /\ dListingIdx' = IF sitemap_urls # {} THEN dTemplate.listings
                                 ELSE dListingIdx
       ELSE UNCHANGED <<dDiscovered, dSitemapError, dYields, dListingIdx>>
    /\ dpc' = "listings"
    /\ UNCHANGED <<dTemplate, dHadError, dHadResults, dResult, notDiscVars>>

\* discover, lines 872-883: the sitemap pass; its fetch errors stay inside
\* _discover_from_sitemaps (lines 1017-1021)
DiscoverSitemaps ==
    /\ dpc = "sitemaps"
    /\ IF dTemplate.enable_sitemaps
       THEN \E sitemap_urls \in SUBSET SiteUrls, fetchRaised \in BOOLEAN :
               /\ dDiscovered' = dDiscovered \cup sitemap_urls
               /\ dSitemapError' = fetchRaised
               /\ dYields' = Append(dYields, [strategy |-> "sitemaps", urls |-> sitemap_urls,
                                              raised |-> fetchRaised])
       ELSE UNCHANGED <<dDiscovered, dSitemapError, dYields>>
    /\ dpc' = "listings"
    /\ UNCHANGED <<dTemplate, dHadError, dHadResults, dListingIdx, dResult, notDiscVars>>

\* a discover that lets the exception of _scrape_listing leave it
discover_listing_aborts ==
    /\ dpc = "listings" /\ dListingIdx < dTemplate.listings
    /\ dHadError' = TRUE
    /\ dpc' = "raised"
    /\ dYields' = Append(dYields, [strategy |-> "listing", urls |-> {}, raised |-> TRUE])
    /\ UNCHANGED <<dTemplate, dDiscovered, dHadResults, dListingIdx, dResult, dSitemapError,
                   notDiscVars>>

\* discover, lines 884-900: _scrape_listing raised for the listing spec
DiscoverListingRaises ==
    /\ dpc = "listings" /\ dListingIdx < dTemplate.listings
    /\ dHadError' = TRUE
    /\ dListingIdx' = dListingIdx + 1
    /\ dYields' = Append(dYields, [strategy |-> "listing", urls |-> {}, raised |-> TRUE])
    /\ UNCHANGED <<dpc, dTemplate, dDiscovered, dHadResults, dResult, dSitemapError,
                   notDiscVars>>

\* discover, lines 884-910: _scrape_listing returned its URLs
DiscoverListingReturns ==
    /\ dpc = "listings" /\ dListingIdx < dTemplate.listings
    /\ \E urls \in SUBSET SiteUrls :
          /\ dDiscovered' = IF urls # {} THEN dDiscovered \cup urls ELSE dDiscovered
          /\ dHadResults' = IF urls # {} THEN TRUE ELSE dHadResults
          /\ dYields' = Append(dYields, [strategy |-> "listing", urls |-> urls,
                                         raised |-> FALSE])
    /\ dListingIdx' = dListingIdx + 1
    /\ UNCHANGED <<dpc, dTemplate, dHadError, dResult, dSitemapError, notDiscVars>>

\* discover, lines 916-920, never raising: a clean empty result is returned
discover_end_clean_empty ==
    /\ dpc = "listings" /\ dListingIdx = dTemplate.listings
    /\ IF dHadError /\ dDiscovered = {}
       THEN dpc' = "raised" /\ dResult' = {}
       ELSE dpc' = "returned" /\ dResult' = dDiscovered
    /\ UNCHANGED <<dTemplate, dDiscovered, dHadError, dHadResults, dListingIdx,
                   dSitemapError, dYields, notDiscVars>>

\* discover, lines 912-921: raise ListingDiscoveryError or return discovered
DiscoverEnd ==
    /\ dpc = "listings" /\ dListingIdx = dTemplate.listings
    /\ IF dHadError /\ dDiscovered = {}
       THEN dpc' = "raised" /\ dResult' = {}
       ELSE IF dDiscovered = {} /\ ~dHadResults
       THEN dpc' = "raised" /\ dResult' = {}
       ELSE dpc' = "returned" /\ dResult' = dDiscovered
    /\ UNCHANGED <<dTemplate, dDiscovered, dHadError, dHadResults, dListingIdx,
                   dSitemapError, dYields, notDiscVars>>

DiscoverNext ==
    \/ DiscoverSitemaps
    \/ DiscoverListingRaises
    \/ DiscoverListingReturns
    \/ DiscoverEnd

SpecDiscover == DiscoverInit /\ [][DiscoverNext]_vars

----------------------------------------------------------------------------
(* ArticleScraper: what one fetched page offers to each extraction tier,   *)
(* and the tiers as functions on the candidate Recipe.  A value names the  *)
(* tier it comes from: "ld" JSON-LD, "sel" configured selectors, "sec" DOM *)
(* section, "gen" generic fallbacks.                                       *)

PyListValue(items) == [py |-> "list", items |-> items]

\* bool(value) of a JSON-LD value
PyBool(v) ==
    CASE v.py = "None" -> FALSE
      [] v.py = "str" -> v.s # ""
      [] v.py = "list" -> v.items # <<>>

\* a string of white space only
Blank == " "

clean_text(value) == IF value = Blank THEN "" ELSE value

\* str(item).strip() is non-empty
Strips(item) == item # "" /\ item # Blank

normalise_sequence(value) ==
    IF ~PyBool(value) THEN <<>>
    ELSE IF value.py = "str" THEN <<clean_text(value.s)>>
    ELSE LET kept == SelectSeq(value.items, Strips)
         IN  [k \in 1..Len(kept) |-> clean_text(kept[k])]

NonEmpty(item) == item # ""

normalise_instructions(value) ==
    IF ~PyBool(value) THEN <<>>
    ELSE IF value.py = "str" THEN <<clean_text(value.s)>>
    ELSE LET instructions == [k \in 1..Len(value.items) |-> clean_text(value.items[k])]
         IN  SelectSeq(instructions, NonEmpty)

RECURSIVE dedupe_preserve_order(_)
dedupe_preserve_order(items) ==
    IF items = <<>> THEN <<>>
    ELSE LET unique == dedupe_preserve_order(SubSeq(items, 1, Len(items) - 1))
             item == items[Len(items)]
         IN  IF \E k \in 1..Len(unique) : unique[k] = item THEN unique
             ELSE Append(unique, item)

AllFields == OptionalFields \cup ListFields

\* bool(getattr(recipe, field))
FieldTruthy(recipe, field) ==
    IF field \in ListFields THEN recipe[field] # <<>> ELSE Truthy(recipe[field])

\* a or b
PyOr(a, b) == IF Truthy(a) THEN a ELSE b
ListOr(a, b) == IF a # <<>> THEN a ELSE b

\* a JSON-LD Recipe node without any of the keys scrape reads
NodeEmpty ==
    [name |-> PyNone, description |-> PyNone, recipeIngredient |-> PyNone,
     recipeInstructions |-> PyNone, prepTime |-> PyNone, cookTime |-> PyNone,
     totalTime |-> PyNone, recipeYield |-> PyNone, image |-> PyNone, author |-> PyNone,
     recipeCategory |-> PyNone, keywords |-> PyNone]
\* a node with every key
NodeFull ==
    [name |-> PyStr("ld"), description |-> PyStr("ld"),
     recipeIngredient |-> PyListValue(<<"ld", Blank>>),
     recipeInstructions |-> PyListValue(<<"ld">>),
     prepTime |-> PyStr("ld"), cookTime |-> PyStr("ld"), totalTime |-> PyStr("ld"),
     recipeYield |-> PyStr("ld"), image |-> PyStr("ld"), author |-> PyStr("ld"),
     recipeCategory |-> PyListValue(<<"ld">>), keywords |-> PyStr("ld")]
\* a node that describes the dish and lists nothing; its image is a relative reference
NodeMeta ==
    [NodeEmpty EXCEPT !.name = PyStr("ld"), !.description = PyStr("ld"),
                      !.image = PyStr("/ld"), !.recipeIngredient = PyListValue(<<Blank>>)]
\* a node whose ingredient text is white space
NodeBlank == [NodeEmpty EXCEPT !.name = PyStr("ld"), !.recipeIngredient = PyStr(Blank)]
Nodes == {NodeEmpty, NodeFull, NodeMeta, NodeBlank}

\* RecipeSection: _extract_recipe_sections keeps a section only if has_content();
\* container_image is the first image under section.container
SecFull ==
    [title |-> PyStr("sec"), anchor |-> PyStr("a"), image |-> PyStr("/sec"),
     container_image |-> PyNone, ingredients |-> <<"sec">>, instructions |-> <<"sec">>]
SecBare ==
    [title |-> PyNone, anchor |-> PyNone, image |-> PyNone, container_image |-> PyNone,
     ingredients |-> <<"sec">>, instructions |-> <<>>]
SecTitled ==
    [title |-> PyStr("sec"), anchor |-> PyStr("a"), image |-> PyNone,
     container_image |-> PyStr("sec"), ingredients |-> <<>>,
     instructions |-> <<"sec", "sec">>]
has_content(section) == section.ingredients # <<>> \/ section.instructions # <<>>
Sections == {sec \in {SecFull, SecBare, SecTitled} : has_content(sec)}

SeqsUpTo(S, n) == UNION {[1..k -> S] : k \in 0..n}

\* The URL of a fetched page: its fragment as the sequence of the parts that '-'
\* joins (none: the empty sequence), and whether it ends with '/'.
NoFragment == <<>>
FetchedUrl(frag, slash) ==
    [site |-> 1, path |-> 1, frag |-> frag, long |-> FALSE, slash |-> slash]

\* url.split("#", 1)[0].rstrip("/")
normalise_base_url(url) == [url EXCEPT !.frag = NoFragment, !.slash = FALSE]

\* the pages a site can answer with: JSON-LD nodes, sections, the fields for which a
\* configured selector (or its fallbacks) yields a value, and the generic fallbacks:
\* the head of the page carries og:title and og:image, or neither
Pages ==
    UNION {[url : {FetchedUrl(NoFragment, FALSE)},
            structured : SeqsUpTo(Nodes, MaxRecipes),
            sections : SeqsUpTo(Sections, MaxRecipes),
            selected : {{}, {"title", "image", "ingredients"}, AllFields},
            generic_title : {IF og THEN PyStr("gen") ELSE PyNone},
            generic_image : {IF og THEN PyStr("/gen") ELSE PyNone}] : og \in BOOLEAN}

Max(a, b) == IF a >= b THEN a ELSE b
recipe_count(page) == Max(Max(Len(page.structured), Len(page.sections)), 1)
multi_mode(page) == recipe_count(page) > 1

populate_from_structured(recipe, data) ==
    [recipe EXCEPT
       !.title = PyOr(@, data.name),
       !.description = PyOr(@, data.description),
       !.ingredients = ListOr(@, normalise_sequence(data.recipeIngredient)),
       !.instructions = ListOr(@, normalise_instructions(data.recipeInstructions)),
       !.prep_time = PyOr(@, data.prepTime),
       !.cook_time = PyOr(@, data.cookTime),
       !.total_time = PyOr(@, data.totalTime),
       !.servings = IF PyBool(data.recipeYield) /\ ~Truthy(@)
                    THEN PyStr(clean_text(data.recipeYield.s)) ELSE @,
       !.image = IF PyBool(data.image) /\ ~Truthy(@) THEN data.image ELSE @,
       !.author = IF data.author.py = "str" /\ ~Truthy(@) THEN data.author ELSE @,
       !.categories = ListOr(@, normalise_sequence(data.recipeCategory)),
       !.tags = ListOr(@, IF data.keywords.py = "str"
                          THEN (IF Strips(data.keywords.s)
                                THEN <<clean_text(data.keywords.s)>> ELSE <<>>)
                          ELSE normalise_sequence(data.keywords)),
       !.raw = @ \cup {<<"json_ld", "ld">>}]

\* Image references are written "/x" when relative to the page and "x" when absolute.
RelativeRefs == {"/ld", "/sel", "/sec", "/gen"}
IsAbsolute(value) == value.s \notin RelativeRefs
\* urljoin(base_url, cleaned) of an image reference: a relative one becomes the
\* absolute URL under base_url, an absolute one is kept
urljoin_reference(base_url, ref) ==
    CASE ref = "/ld" -> "ld" [] ref = "/sel" -> "sel" [] ref = "/sec" -> "sec"
      [] ref = "/gen" -> "gen" [] OTHER -> ref

\* _normalise_url(candidate, base_url)
normalise_url(candidate, base_url) ==
    IF ~Truthy(candidate) THEN PyNone
    ELSE IF Strips(candidate.s) THEN PyStr(urljoin_reference(base_url, candidate.s))
    ELSE PyNone

\* _extract_image: the attribute of the first matching element, as written in the page
extract_image == PyStr("/sel")

\* _extract_field over the narrowed and the full document
extract_field(page, field) ==
    IF field \in ListFields
    THEN (IF field \in page.selected THEN <<"sel">> ELSE <<>>)
    ELSE IF field \notin page.selected THEN PyNone
    ELSE IF field = "image" THEN extract_image ELSE PyStr("sel")

\* _populate_from_selectors that leaves out "if current_value: continue"
populate_from_selectors_overwriting(recipe, page, skip_fields) ==
    [field \in DOMAIN recipe |->
        IF field \notin AllFields \/ field \in skip_fields THEN recipe[field]
        ELSE LET value == extract_field(page, field)
             IN  IF field \in ListFields
                 THEN (IF value = <<>> THEN recipe[field] ELSE value)
                 ELSE (IF Truthy(value) THEN value ELSE recipe[field])]

populate_from_selectors(recipe, page, skip_fields) ==
    [field \in DOMAIN recipe |->
        IF field \notin AllFields \/ field \in skip_fields THEN recipe[field]
        ELSE IF FieldTruthy(recipe, field) THEN recipe[field]
        ELSE LET value == extract_field(page, field)
             IN  IF field \in ListFields
                 THEN (IF value = <<>> THEN recipe[field] ELSE value)
                 ELSE (IF Truthy(value) THEN value ELSE recipe[field])]

resolve_section_image(section, base_url) ==
    IF Truthy(section.image) THEN normalise_url(section.image, base_url)
    ELSE IF Truthy(section.container_image)
         THEN normalise_url(section.container_image, base_url)
    ELSE PyNone

populate_from_section(recipe, section, base_url, prefer_section) ==
    LET section_image == resolve_section_image(section, base_url)
    IN  [recipe EXCEPT
           !.title = IF Truthy(section.title) /\ (prefer_section \/ ~Truthy(@))
                     THEN section.title ELSE @,
           !.ingredients = IF section.ingredients # <<>> /\ @ = <<>>
                           THEN dedupe_preserve_order(section.ingredients) ELSE @,
           !.instructions = IF section.instructions # <<>> /\ @ = <<>>
                            THEN dedupe_preserve_order(section.instructions) ELSE @,
           !.image = IF (prefer_section \/ ~Truthy(@)) /\ Truthy(section_image)
                     THEN section_image ELSE @]

apply_generic_fallbacks(recipe, page) ==
    [recipe EXCEPT
       !.title = IF ~Truthy(@) /\ Truthy(page.generic_title) THEN page.generic_title ELSE @,
       !.image = IF ~Truthy(@) /\ Truthy(page.generic_image)
                 THEN normalise_url(page.generic_image, page.url) ELSE @]

\* _validate_recipe that accepts what the service calls essential data
validate_recipe_essential(recipe) == Truthy(recipe.title) \/ recipe.ingredients # <<>>

\* _validate_recipe returns (TRUE) or raises ArticleExtractionError (FALSE)
validate_recipe(recipe) == recipe.ingredients # <<>> \/ recipe.instructions # <<>>

----------------------------------------------------------------------------
(* Anchors of the recipes of a multi-recipe page.  An anchor or slug is    *)
(* the sequence of the parts that '-' joins: "recipe-a-2" is               *)
(* <<"recipe", "a", "2">>.  A fetched URL tells its fragment the same way  *)
(* and whether it ends with '/'.                                           *)

\* the parts of a lower-cased text between the runs of characters that are not
\* alphanumeric: _SLUG_RE.sub("-", value.lower()).strip("-")
SlugParts(text) ==
    CASE text = "a-2" -> <<"a", "2">>
      [] text = "#a" -> <<"a">>
      [] text \in {"Recipe 2", "recipe-2"} -> <<"recipe", "2">>
      [] text \in {"", Blank, "!!!"} -> <<>>
      [] OTHER -> <<text>>

slugify(value) == IF ~Truthy(value) THEN <<>> ELSE SlugParts(value.s)

\* section.anchor.strip().lstrip("#") of an id made of letters, digits and '-'
stripped_anchor(text) == SlugParts(text)

RECURSIVE next_free_anchor(_, _, _)
next_free_anchor(anchor, used, index) ==
    LET candidate == Append(anchor, ToString(index))
    IN  IF candidate \in used THEN next_free_anchor(anchor, used, index + 1) ELSE candidate

\* _ensure_unique_anchor that hands the anchor back as it is
ensure_unique_anchor_unchecked(anchor, used) == anchor

\* _ensure_unique_anchor: the anchor it returns; the caller's set gains it
ensure_unique_anchor(anchor, used) ==
    IF anchor \in used THEN next_free_anchor(anchor, used, 2) ELSE anchor

\* a candidate without a section of its own
NoSection ==
    [title |-> PyNone, anchor |-> PyNone, image |-> PyNone, container_image |-> PyNone,
     ingredients |-> <<>>, instructions |-> <<>>]

\* the first non-empty slug of section.title, fallback_title and "recipe-N"
FirstSlug(section, index, fallback_title) ==
    IF slugify(section.title) # <<>> THEN slugify(section.title)
    ELSE IF slugify(fallback_title) # <<>> THEN slugify(fallback_title)
    ELSE <<"recipe", ToString(index + 1)>>

resolve_section_anchor(section, index, fallback_title, used) ==
    IF Truthy(section.anchor) /\ stripped_anchor(section.anchor.s) # <<>>
    THEN ensure_unique_anchor(stripped_anchor(section.anchor.s), used)
    ELSE LET slug == FirstSlug(section, index, fallback_title)
             anchor == IF Len(slug) >= 2 /\ slug[1] = "recipe" THEN slug
                       ELSE <<"recipe">> \o slug
         IN  ensure_unique_anchor(anchor, used)

\* scrape, line 1184: f"{base_url}#{anchor}"; base_url is empty for no fetched URL
anchored_source_url(url, anchor) == [normalise_base_url(url) EXCEPT !.frag = anchor]

----------------------------------------------------------------------------
(* SpecExtract: one call ArticleScraper.scrape(template, url), one step    *)
(* per tier of each candidate.                                             *)

NewCandidate(page) == Recipe(Templates[1].name, page.url)

\* the first non-empty value each field received, after one more tier
FirstValues(filled, recipe) ==
    [field \in DOMAIN filled |->
        IF field \in AllFields /\ ~FieldTruthy(filled, field) THEN recipe[field]
        ELSE filled[field]]

ExtractInit ==
    /\ xpc = "fetch"
    /\ xPage \in Pages
    /\ xIndex = 0
    /\ xRecipe = NewCandidate(xPage)
    /\ xRecipes = <<>>
    /\ xResult = "none"
    /\ xFilled = NewCandidate(xPage)
    /\ xCandidates = <<>>
    /\ ServiceIdle
    /\ DiscoverIdle
    /\ AnchorsIdle
    /\ OthersIdle
    /\ FetchersIdle

\* scrape, line 1135: the fetch raises
ExtractFetchRaises ==
    /\ xpc = "fetch"
    /\ xpc' = "raised"
    /\ xResult' = "RequestException"
    /\ UNCHANGED <<xPage, xIndex, xRecipe, xRecipes, xFilled, xCandidates, notExtVars>>

\* scrape, lines 1135-1156: the page is fetched and parsed, the first candidate is made
ExtractFetch ==
    /\ xpc = "fetch"
    /\ xpc' = "structured"
    /\ UNCHANGED <<xPage, xIndex, xRecipe, xRecipes, xResult, xFilled, xCandidates,
                   notExtVars>>

\* one tier has run on the candidate
Tier(recipe, next) ==
    /\ xRecipe' = recipe
    /\ xFilled' = FirstValues(xFilled, recipe)
    /\ xpc' = next
    /\ UNCHANGED <<xPage, xIndex, xRecipes, xResult, xCandidates, notExtVars>>

\* scrape, lines 1158-1159
ExtractStructured ==
    /\ xpc = "structured"
    /\ Tier(IF xIndex < Len(xPage.structured)
            THEN populate_from_structured(xRecipe, xPage.structured[xIndex + 1])
            ELSE xRecipe, "selectors")

\* the selector tier without skip_fields in multi mode
extract_selectors_unskipped ==
    /\ xpc = "selectors"
    /\ Tier(populate_from_selectors(xRecipe, xPage, {}), "section")

\* scrape, lines 1161-1171
ExtractSelectors ==
    /\ xpc = "selectors"
    /\ LET skip_fields == IF multi_mode(xPage) THEN {"ingredients", "instructions"} ELSE {}
       IN  Tier(populate_from_selectors(xRecipe, xPage, skip_fields), "section")

\* scrape, lines 1152 and 1173-1179
ExtractSection ==
    /\ xpc = "section"
    /\ Tier(IF xIndex < Len(xPage.sections)
            THEN populate_from_section(xRecipe, xPage.sections[xIndex + 1], xPage.url,
                                       multi_mode(xPage))
            ELSE xRecipe, "generic")

\* scrape, line 1180
ExtractGeneric ==
    /\ xpc = "generic"
    /\ Tier(apply_generic_fallbacks(xRecipe, xPage), "validate")

\* scrape, lines 1182-1193 and the loop header 1151-1156: the anchor, the validation,
\* and the next candidate
ExtractValidate ==
    /\ xpc = "validate"
    /\ LET section == IF xIndex < Len(xPage.sections) THEN xPage.sections[xIndex + 1]
                      ELSE NoSection
           used_anchors == {xCandidates[k].recipe.source_url.frag :
                               k \in 1..Len(xCandidates)}
           anchor == resolve_section_anchor(section, xIndex, xRecipe.title, used_anchors)
           recipe == IF multi_mode(xPage)
                     THEN [xRecipe EXCEPT !.source_url = anchored_source_url(xPage.url, anchor)]
                     ELSE xRecipe
           more == xIndex + 1 < recipe_count(xPage)
       IN  /\ xCandidates' = Append(xCandidates, [index |-> xIndex, recipe |-> recipe,
                                                  filled |-> xFilled])
           /\ IF validate_recipe(recipe)
              THEN /\ xRecipes' = Append(xRecipes, recipe)
                   /\ xpc' = IF more THEN "structured" ELSE "end"
                   /\ xResult' = xResult
              ELSE IF multi_mode(xPage)
              THEN /\ xRecipes' = xRecipes
                   /\ xpc' = IF more THEN "structured" ELSE "end"
                   /\ xResult' = xResult
              ELSE /\ xRecipes' = xRecipes
                   /\ xpc' = "raised"
                   /\ xResult' = "ArticleExtractionError"
           /\ IF xpc' = "structured"
              THEN /\ xIndex' = xIndex + 1
                   /\ xRecipe' = NewCandidate(xPage)
                   /\ xFilled' = NewCandidate(xPage)
              ELSE /\ xIndex' = xIndex
                   /\ xRecipe' = recipe
                   /\ xFilled' = xFilled
    /\ UNCHANGED <<xPage, notExtVars>>

\* scrape, lines 1195-1200
ExtractEnd ==
    /\ xpc = "end"
    /\ IF xRecipes = <<>>
       THEN xpc' = "raised" /\ xResult' = "ArticleExtractionError"
       ELSE xpc' = "returned" /\ xResult' = xResult
    /\ UNCHANGED <<xPage, xIndex, xRecipe, xRecipes, xFilled, xCandidates, notExtVars>>

ExtractNext ==
    \/ ExtractFetchRaises
    \/ ExtractFetch
    \/ ExtractStructured
    \/ ExtractSelectors
    \/ ExtractSection
    \/ ExtractGeneric
    \/ ExtractValidate
    \/ ExtractEnd

SpecExtract == ExtractInit /\ [][ExtractNext]_vars

----------------------------------------------------------------------------
(* SpecAnchors: the anchors one call scrape gives the candidates of a      *)
(* multi-recipe page, one step per candidate (lines 1182-1184).  A         *)
(* candidate is its section (NoSection for none) and the title the tiers   *)
(* left in recipe.title.                                                   *)

AnchorSection(anchor, title) == [NoSection EXCEPT !.anchor = anchor, !.title = title]

AnchorCandidates ==
    { [section |-> AnchorSection(PyStr("a"), PyStr("sec")), title |-> PyStr("sec")],
      [section |-> AnchorSection(PyStr("a-2"), PyStr("sec")), title |-> PyStr("sec")],
      [section |-> AnchorSection(PyStr("#a"), PyNone), title |-> PyNone],
      [section |-> AnchorSection(PyStr("recipe-2"), PyNone), title |-> PyStr("gen")],
      [section |-> AnchorSection(PyStr(Blank), PyStr("sec")), title |-> PyStr("sec")],
      [section |-> AnchorSection(PyNone, PyStr("sec")), title |-> PyStr("sec")],
      [section |-> AnchorSection(PyNone, PyStr("Recipe 2")), title |-> PyStr("Recipe 2")],
      [section |-> AnchorSection(PyNone, PyStr("!!!")), title |-> PyStr("!!!")],
      [section |-> NoSection, title |-> PyStr("sec")],
      [section |-> NoSection, title |-> PyNone] }

FetchedUrls == {FetchedUrl(frag, slash) : frag \in {NoFragment, <<"top">>}, slash \in BOOLEAN}

AnchorsInit ==
    /\ ServiceIdle
    /\ DiscoverIdle
    /\ ExtractIdle
    /\ aUrl \in FetchedUrls
    /\ aCandidates \in {cs \in SeqsUpTo(AnchorCandidates, MaxAnchors) : Len(cs) > 1}
    /\ aUsed = {}
    /\ aSourceUrls = <<>>
    /\ FetchersIdle
    /\ OthersIdle

\* one pass of the loop body for a candidate in multi mode
AnchorCandidate ==
    /\ Len(aSourceUrls) < Len(aCandidates)
    /\ LET index == Len(aSourceUrls)
           candidate == aCandidates[index + 1]
           anchor == resolve_section_anchor(candidate.section, index, candidate.title, aUsed)
       IN  /\ aUsed' = aUsed \cup {anchor}
           /\ aSourceUrls' = Append(aSourceUrls, anchored_source_url(aUrl, anchor))
    /\ UNCHANGED <<aUrl, aCandidates>>
    /\ UNCHANGED notAncVars

AnchorsNext == AnchorCandidate

SpecAnchors == AnchorsInit /\ [][AnchorsNext]_vars

----------------------------------------------------------------------------
(* Listing discovery.  A URL of the site is its host, the segments of its  *)
(* path, its fragment as the parts '-' joins, and whether it ends with     *)
(* '/'; a relative reference has the host "".  Queries are left out.       *)

SiteUrl(host, path, frag, slash) ==
    [host |-> host, path |-> path, frag |-> frag, slash |-> slash]

\* the template: https://example.com/ with the listing https://example.com/recipes/
TemplateUrl == SiteUrl("example.com", <<>>, NoFragment, TRUE)
ListingUrl == SiteUrl("example.com", <<"recipes">>, NoFragment, TRUE)

\* urljoin(base_url, href) for an absolute URL and for a reference that starts with '/'
urljoin(base_url, href) == IF href.host = "" THEN [href EXCEPT !.host = base_url.host] ELSE href

\* netloc.lower().lstrip("www."): lstrip takes away every leading 'w' and '.'
lstrip_www(host) ==
    CASE host \in {"example.com", "www.example.com", "Example.com", "wexample.com"}
            -> "example.com"
      [] OTHER -> host

same_domain(base_url, candidate) ==
    LET base_host == lstrip_www(base_url.host)
        target_host == lstrip_www(candidate.host)
    IN  IF target_host # "" /\ target_host # base_host THEN FALSE
        ELSE target_host # "" \/ (candidate.host = "" /\ candidate.path # <<>>)

NAVIGATION_FRAGMENT_KEYWORDS ==
    {"breadcrumb", "comment", "comments", "respond", "reply", "share", "print", "menu",
     "nav", "footer", "header"}

is_navigation_fragment(fragment) ==
    \E i \in 1..Len(fragment) : fragment[i] \in NAVIGATION_FRAGMENT_KEYWORDS

\* the last segment ends with one of ASSET_EXTENSIONS, or is "feed"
looks_like_asset_url(url) ==
    url.path # <<>> /\ url.path[Len(url.path)] \in {"logo.png", "menu.pdf", "feed"}

should_include_url(template_url, listing_url, candidate_url) ==
    IF /\ candidate_url.frag # NoFragment
       /\ \/ is_navigation_fragment(candidate_url.frag)
          \/ candidate_url.frag[1] = "/"
          \/ \E i \in 1..Len(candidate_url.frag) :
                candidate_url.frag[i] \in {"schema", "image", "logo"}
    THEN FALSE
    ELSE IF /\ candidate_url.frag = NoFragment
            /\ normalise_base_url(candidate_url)
                 \in {normalise_base_url(listing_url), normalise_base_url(template_url)}
    THEN FALSE
    ELSE ~looks_like_asset_url(candidate_url)

LowerType(type) ==
    CASE type = "Recipe" -> "recipe"
      [] type = "Article" -> "article"
      [] type = "HowTo" -> "howto"
      [] type = "ImageObject" -> "imageobject"
      [] OTHER -> type

normalise_jsonld_types(value) ==
    IF value.py = "str" THEN {LowerType(value.s)}
    ELSE IF value.py = "list" THEN {LowerType(value.items[i]) : i \in 1..Len(value.items)}
    ELSE {}

LISTING_JSONLD_ALLOWED_TYPES ==
    {"recipe", "article", "blogposting", "newsarticle", "howto", "creativework"}

\* is_allowed of _collect_json_ld_urls
is_allowed(node) ==
    LET types == normalise_jsonld_types(node.type)
    IN  types = {} \/ types \cap LISTING_JSONLD_ALLOWED_TYPES # {}

\* _collect_json_ld_urls that takes the url and @id of every node
collect_json_ld_urls_any_type(nodes) == {node.value : node \in nodes}

\* _collect_json_ld_urls over the dicts of a document: every dict is visited, and the
\* url or @id of an allowed one is taken
collect_json_ld_urls(nodes) == {node.value : node \in {n \in nodes : is_allowed(n)}}

extract_listing_links_from_jsonld(nodes, base_url) ==
    {absolute \in {urljoin(base_url, url) : url \in collect_json_ld_urls(nodes)} :
        ~looks_like_asset_url(absolute) /\ same_domain(base_url, absolute)}

----------------------------------------------------------------------------
(* SpecPage: what _scrape_listing takes from one fetched listing page:     *)
(* the links of the link selector, else the links of the JSON-LD.          *)

\* hrefs the link selector can match
Hrefs ==
    { SiteUrl("example.com", <<"recipes", "a1">>, NoFragment, TRUE),
      SiteUrl("", <<"recipes", "a2">>, NoFragment, FALSE),
      SiteUrl("example.com", <<"recipes">>, NoFragment, FALSE),
      SiteUrl("example.com", <<"recipes">>, <<"soup">>, TRUE),
      SiteUrl("example.com", <<"recipes", "a1">>, <<"comments">>, TRUE),
      SiteUrl("other.org", <<"recipes", "b1">>, NoFragment, FALSE) }

JsonLdNode(type, key, value) == [type |-> type, key |-> key, value |-> value]

\* dicts of the JSON-LD of a page, each with its @type and its url or @id
JsonLdNodes ==
    { JsonLdNode(PyStr("Recipe"), "url",
                 SiteUrl("example.com", <<"recipes", "a3">>, NoFragment, TRUE)),
      JsonLdNode(PyNone, "@id", SiteUrl("", <<"recipes", "a4">>, NoFragment, FALSE)),
      JsonLdNode(PyListValue(<<"ImageObject", "Article">>), "url",
                 SiteUrl("www.example.com", <<"recipes", "a5">>, NoFragment, FALSE)),
      JsonLdNode(PyStr("ImageObject"), "url",
                 SiteUrl("example.com", <<"recipes", "i1">>, NoFragment, TRUE)),
      JsonLdNode(PyStr("Recipe"), "url",
                 SiteUrl("other.org", <<"recipes", "b2">>, NoFragment, FALSE)),
      JsonLdNode(PyStr("HowTo"), "@id",
                 SiteUrl("wexample.com", <<"recipes", "w1">>, NoFragment, FALSE)),
      JsonLdNode(PyNone, "url", SiteUrl("example.com", <<"recipes">>, NoFragment, TRUE)),
      JsonLdNode(PyStr("Recipe"), "url",
                 SiteUrl("example.com", <<"media", "logo.png">>, NoFragment, FALSE)) }

ListingPages ==
    [base_url : {ListingUrl, [ListingUrl EXCEPT !.host = "www.example.com"]},
     links : SUBSET Hrefs,
     nodes : SUBSET JsonLdNodes]

PageInit ==
    /\ ppc = "selector"
    /\ pPage \in ListingPages
    /\ pUrls = {}
    /\ pConsulted = FALSE
    /\ ServiceIdle
    /\ DiscoverIdle
    /\ ExtractIdle
    /\ AnchorsIdle
    /\ OthersIdle
    /\ SitemapsIdle
    /\ CrawlIdle

\* _scrape_listing, lines 949-957: the links of the link selector
PageSelector ==
    /\ ppc = "selector"
    /\ pUrls' = {absolute \in {urljoin(pPage.base_url, href) : href \in pPage.links} :
                    should_include_url(TemplateUrl, ListingUrl, absolute)}
    /\ ppc' = "fallback"
    /\ UNCHANGED <<pPage, pConsulted, notPageVars>>

\* _scrape_listing, lines 959-977: no link was accepted, the JSON-LD is consulted
PageFallback ==
    /\ ppc = "fallback"
    /\ pUrls = {}
    /\ pConsulted' = TRUE
    /\ pUrls' = {link \in extract_listing_links_from_jsonld(pPage.nodes, pPage.base_url) :
                    should_include_url(TemplateUrl, ListingUrl, link)}
    /\ ppc' = "done"
    /\ UNCHANGED <<pPage, notPageVars>>

\* _scrape_listing, lines 959 and 979: a link was accepted, page_urls stays
PageKeep ==
    /\ ppc = "fallback"
    /\ pUrls # {}
    /\ ppc' = "done"
    /\ UNCHANGED <<pPage, pUrls, pConsulted, notPageVars>>

PageNext ==
    \/ PageSelector
    \/ PageFallback
    \/ PageKeep

SpecPage == PageInit /\ [][PageNext]_vars

----------------------------------------------------------------------------
(* SpecSitemaps: one call _discover_from_sitemaps(template), one step per  *)
(* sitemap URL taken from the queue.  The site is fixed when the call      *)
(* starts: per sitemap URL the fetch raises, or the body cannot be parsed, *)
(* or it is a document with its <loc> entries in order.                    *)

\* the lower-cased words of a path segment, between the characters '-', '.' and '_'
Words(segment) ==
    CASE segment = "recipes-1.xml" -> {"recipes", "1", "xml"}
      [] segment = "pages-1.xml" -> {"pages", "1", "xml"}
      [] segment = "recipe-collections.xml" -> {"recipe", "collections", "xml"}
      [] segment = "Chefs.xml" -> {"chefs", "xml"}
      [] segment = "pages.xml" -> {"pages", "xml"}
      [] segment = "sitemap.xml" -> {"sitemap", "xml"}
      [] segment = "sitemap_index.xml" -> {"sitemap", "index", "xml"}
      [] segment = "sitemap-index.xml" -> {"sitemap", "index", "xml"}
      [] segment = "wp-sitemap.xml" -> {"wp", "sitemap", "xml"}
      [] segment = "Storage" -> {"storage"}
      [] OTHER -> {segment}

PathWords(url) == UNION {Words(url.path[i]) : i \in 1..Len(url.path)}

\* loc_text.endswith((".xml", ".xml.gz"))
ends_with_xml(url) == url.path # <<>> /\ "xml" \in Words(url.path[Len(url.path)])

STORAGE_SITEMAP_EXCLUDE_KEYWORDS ==
    {"pages", "chefs", "collections", "playlists", "shows", "spotlights", "videos"}

\* "/storage/" in path, of the lower-cased path
under_storage(url) == \E i \in 1..(Len(url.path) - 1) : Words(url.path[i]) = {"storage"}

\* "recipe" in path, of the lower-cased path
mentions_recipe(url) == PathWords(url) \cap {"recipe", "recipes"} # {}

\* _should_queue_sitemap that queues every sitemap of the domain
should_queue_sitemap_any(template_url, sitemap_url) == same_domain(template_url, sitemap_url)

should_queue_sitemap(template_url, sitemap_url) ==
    IF ~same_domain(template_url, sitemap_url) THEN FALSE
    ELSE IF /\ under_storage(sitemap_url)
            /\ ~mentions_recipe(sitemap_url)
            /\ PathWords(sitemap_url) \cap STORAGE_SITEMAP_EXCLUDE_KEYWORDS # {}
    THEN FALSE
    ELSE TRUE

SitemapUrl(host, path) == SiteUrl(host, path, NoFragment, FALSE)

SITEMAP_CANDIDATES == <<"sitemap.xml", "sitemap_index.xml", "sitemap-index.xml", "wp-sitemap.xml">>

\* _candidate_sitemaps: scheme://netloc/ joined with each candidate
candidate_sitemaps(base_url) ==
    [i \in 1..Len(SITEMAP_CANDIDATES) |-> SitemapUrl(base_url.host, <<SITEMAP_CANDIDATES[i]>>)]

StorageRecipes == SitemapUrl("example.com", <<"storage", "recipes-1.xml">>)
StoragePages == SitemapUrl("example.com", <<"storage", "pages-1.xml">>)
StorageRecipeCollections == SitemapUrl("example.com", <<"storage", "recipe-collections.xml">>)
StorageChefs == SitemapUrl("example.com", <<"Storage", "Chefs.xml">>)
PlainPages == SitemapUrl("example.com", <<"sitemaps", "pages.xml">>)
OtherSitemap == SitemapUrl("other.org", <<"sitemap.xml">>)

ArticlePage(name) == SiteUrl("example.com", <<"recipes", name>>, NoFragment, TRUE)

FetchRaises == [kind |-> "raises", locs |-> <<>>]
Unparseable == [kind |-> "unparseable", locs |-> <<>>]
Document(locs) == [kind |-> "xml", locs |-> locs]

IndexOfStorage == Document(<<StorageRecipes, StoragePages, ArticlePage("a0")>>)
IndexOfOthers ==
    Document(<<StorageRecipeCollections, StorageChefs, OtherSitemap, PlainPages,
               SitemapUrl("example.com", <<"sitemap.xml">>)>>)
LeavesOfRoot ==
    Document(<<ListingUrl, TemplateUrl, ArticlePage("a1"),
               SiteUrl("example.com", <<"media", "logo.png">>, NoFragment, FALSE),
               SiteUrl("other.org", <<"recipes", "b1">>, NoFragment, FALSE),
               SiteUrl("example.com", <<"recipes", "a1">>, <<"comments">>, TRUE)>>)

\* what the site can answer for a sitemap URL
DocumentsOf(sitemap_url) ==
    CASE sitemap_url = SitemapUrl("example.com", <<"sitemap.xml">>)
            -> {FetchRaises, IndexOfStorage, IndexOfOthers, LeavesOfRoot}
      [] sitemap_url = SitemapUrl("example.com", <<"sitemap_index.xml">>)
            -> {Unparseable, IndexOfStorage, Document(<<>>)}
      [] sitemap_url = SitemapUrl("example.com", <<"sitemap-index.xml">>)
            -> {Document(<<>>), IndexOfOthers}
      [] sitemap_url = SitemapUrl("example.com", <<"wp-sitemap.xml">>)
            -> {Document(<<>>), FetchRaises}
      [] sitemap_url = StorageRecipes
            -> {Document(<<ArticlePage("a1"), ArticlePage("a2")>>),
                Document(<<ArticlePage("a1"), [ListingUrl EXCEPT !.slash = FALSE]>>)}
      [] sitemap_url = StoragePages -> {Document(<<ArticlePage("p1")>>)}
      [] sitemap_url = StorageRecipeCollections
            -> {Document(<<ArticlePage("a3")>>), FetchRaises}
      [] sitemap_url = StorageChefs -> {Document(<<ArticlePage("c1")>>)}
      [] sitemap_url = PlainPages -> {Document(<<ArticlePage("a2")>>), Document(<<>>)}
      [] OTHER -> {Document(<<SiteUrl("other.org", <<"recipes", "b2">>, NoFragment, FALSE)>>)}

SitemapUrls ==
    {SitemapUrl("example.com", <<SITEMAP_CANDIDATES[i]>>) : i \in 1..Len(SITEMAP_CANDIDATES)}
    \cup {StorageRecipes, StoragePages, StorageRecipeCollections, StorageChefs, PlainPages,
          OtherSitemap}

\* the loop over the <loc> entries of one document, lines 1038-1055: the article URLs
\* and the queue after it
RECURSIVE read_locs(_, _, _, _, _, _)
read_locs(locs, i, articles, queue, visited, max_urls) ==
    IF i > Len(locs) THEN [articles |-> articles, queue |-> queue]
    ELSE LET loc == locs[i]
         IN  IF ~same_domain(TemplateUrl, loc)
             THEN read_locs(locs, i + 1, articles, queue, visited, max_urls)
             ELSE IF ends_with_xml(loc)
             THEN (IF should_queue_sitemap(TemplateUrl, loc) /\ loc \notin visited
                   THEN read_locs(locs, i + 1, articles, Append(queue, loc), visited, max_urls)
                   ELSE read_locs(locs, i + 1, articles, queue, visited, max_urls))
             ELSE LET added == IF should_include_url(TemplateUrl, TemplateUrl, loc)
                               THEN articles \cup {loc} ELSE articles
                  IN  IF Cardinality(added) >= max_urls
                      THEN [articles |-> added, queue |-> queue]
                      ELSE read_locs(locs, i + 1, added, queue, visited, max_urls)

SitemapsInit ==
    /\ mpc = "loop"
    /\ \E max_urls \in {MaxSitemapUrls, 2000} :
       \E d1 \in DocumentsOf(SitemapUrl("example.com", <<"sitemap.xml">>)),
          d2 \in DocumentsOf(SitemapUrl("example.com", <<"sitemap_index.xml">>)),
          d3 \in DocumentsOf(SitemapUrl("example.com", <<"sitemap-index.xml">>)),
          d4 \in DocumentsOf(SitemapUrl("example.com", <<"wp-sitemap.xml">>)),
          d5 \in DocumentsOf(StorageRecipes),
          d6 \in DocumentsOf(StorageRecipeCollections),
          d7 \in DocumentsOf(PlainPages) :
            mSite = [sitemap_max_urls |-> max_urls,
                     docs |-> [u \in SitemapUrls |->
                        CASE u = SitemapUrl("example.com", <<"sitemap.xml">>) -> d1
                          [] u = SitemapUrl("example.com", <<"sitemap_index.xml">>) -> d2
                          [] u = SitemapUrl("example.com", <<"sitemap-index.xml">>) -> d3
                          [] u = SitemapUrl("example.com", <<"wp-sitemap.xml">>) -> d4
                          [] u = StorageRecipes -> d5
                          [] u = StorageRecipeCollections -> d6
                          [] u = PlainPages -> d7
                          [] OTHER -> CHOOSE d \in DocumentsOf(u) : TRUE]]
    /\ mQueue = candidate_sitemaps(TemplateUrl)
    /\ mVisited = {}
    /\ mArticles = {}
    /\ mFetches = <<>>
    /\ ServiceIdle
    /\ DiscoverIdle
    /\ ExtractIdle
    /\ AnchorsIdle
    /\ OthersIdle
    /\ PageIdle
    /\ CrawlIdle

\* the loop condition without the test of len(article_urls)
SitemapLoopUncapped == mpc = "loop" /\ mQueue # <<>>
\* line 1011
SitemapLoop == mpc = "loop" /\ mQueue # <<>> /\ Cardinality(mArticles) < mSite.sitemap_max_urls

\* lines 1012-1014: the sitemap was visited already
SitemapVisited ==
    /\ SitemapLoop
    /\ Head(mQueue) \in mVisited
    /\ mQueue' = Tail(mQueue)
    /\ UNCHANGED <<mpc, mSite, mVisited, mArticles, mFetches, notMapVars>>

\* lines 1015-1031: the fetch raises, or the body is empty or cannot be parsed
SitemapUnread ==
    /\ SitemapLoop
    /\ Head(mQueue) \notin mVisited
    /\ mSite.docs[Head(mQueue)].kind # "xml"
    /\ mVisited' = mVisited \cup {Head(mQueue)}
    /\ mFetches' = Append(mFetches, Head(mQueue))
    /\ mQueue' = Tail(mQueue)
    /\ UNCHANGED <<mpc, mSite, mArticles, notMapVars>>

\* lines 1015-1055: the document is fetched and its <loc> entries are read
SitemapRead ==
    /\ SitemapLoop
    /\ Head(mQueue) \notin mVisited
    /\ mSite.docs[Head(mQueue)].kind = "xml"
    /\ LET visited == mVisited \cup {Head(mQueue)}
           after == read_locs(mSite.docs[Head(mQueue)].locs, 1, mArticles, Tail(mQueue),
                              visited, mSite.sitemap_max_urls)
       IN  /\ mVisited' = visited
           /\ mFetches' = Append(mFetches, Head(mQueue))
           /\ mArticles' = after.articles
           /\ mQueue' = after.queue
    /\ UNCHANGED <<mpc, mSite, notMapVars>>

\* lines 1011 and 1057: the loop is over, article_urls is returned
SitemapsReturn ==
    /\ mpc = "loop"
    /\ ~SitemapLoop
    /\ mpc' = "returned"
    /\ UNCHANGED <<mSite, mQueue, mVisited, mArticles, mFetches, notMapVars>>

SitemapsNext ==
    \/ SitemapVisited
    \/ SitemapUnread
    \/ SitemapRead
    \/ SitemapsReturn

SpecSitemaps == SitemapsInit /\ [][SitemapsNext]_vars

\* _discover_from_sitemaps is sequential code: while a step of the loop is possible
\* the interpreter takes it
SpecSitemapsLive == SitemapsInit /\ [][SitemapsNext]_vars /\ WF_vars(SitemapsNext)

----------------------------------------------------------------------------
(* SpecCrawl: one call _scrape_listing(template_url, listing), one step    *)
(* per URL taken from the queue.  The site answers a URL the first time it *)
(* is asked and gives the same answer afterwards: where the URL redirects  *)
(* to, and the pagination links of the page it ends on.  What the link     *)
(* selector and the JSON-LD give on a page is SpecPage's; here a page has  *)
(* one accepted link of its own.                                           *)

PageNumber(n) == SiteUrl("example.com", <<"recipes", "page", n>>, NoFragment, FALSE)

\* the URLs a request for the URL can end on
FinalsOf(url) ==
    IF url.path = <<"recipes", "page", "1">> THEN {url, ListingUrl}
    ELSE IF url.path = <<"recipes", "page", "3">> THEN {url, PageNumber("2")}
    ELSE {url}

\* the hrefs the pagination selector can match on a page
Paginations ==
    { <<>>,
      <<PageNumber("1"), PageNumber("2")>>,
      <<PageNumber("1"), PageNumber("3")>>,
      <<PageNumber("3"), PageNumber("2")>>,
      <<[PageNumber("2") EXCEPT !.slash = TRUE], [PageNumber("2") EXCEPT !.frag = <<"top">>]>>,
      <<SiteUrl("other.org", <<"recipes", "page", "2">>, NoFragment, FALSE), PageNumber("3")>>,
      <<[ListingUrl EXCEPT !.host = ""]>>,
      <<[ListingUrl EXCEPT !.host = ""], PageNumber("2")>> }

\* page_urls of a fetched page: the accepted links found on it
PageUrls(final) == {[normalise_base_url(final) EXCEPT !.path = @ \o <<"article">>]}

Extend(f, key, value) == [x \in DOMAIN f \cup {key} |-> IF x = key THEN value ELSE f[x]]

RECURSIVE enqueue_pagination_stopping(_, _, _, _, _, _)
RECURSIVE enqueue_pagination(_, _, _, _, _, _)
\* the scan of lines 984-1000 with "break" where the code has its last "continue"
enqueue_pagination_stopping(links, i, base_url, depth, queue, queued) ==
    IF i > Len(links) THEN [queue |-> queue, queued |-> queued]
    ELSE LET candidate == urljoin(base_url, links[i])
             candidate_base == normalise_base_url(candidate)
         IN  IF ~same_domain(cListing.url, candidate)
             THEN enqueue_pagination_stopping(links, i + 1, base_url, depth, queue, queued)
             ELSE IF candidate_base \in cSeen' \/ candidate_base \in queued
             THEN [queue |-> queue, queued |-> queued]
             ELSE enqueue_pagination_stopping(links, i + 1, base_url, depth,
                                     Append(queue, [url |-> candidate, depth |-> depth + 1]),
                                     queued \cup {candidate_base})
\* lines 981-1000: the pagination links of the page join the queue
enqueue_pagination(links, i, base_url, depth, queue, queued) ==
    IF i > Len(links) THEN [queue |-> queue, queued |-> queued]
    ELSE LET candidate == urljoin(base_url, links[i])
             candidate_base == normalise_base_url(candidate)
         IN  IF \/ ~same_domain(cListing.url, candidate)
                \/ candidate_base \in cSeen'
                \/ candidate_base \in queued
             THEN enqueue_pagination(links, i + 1, base_url, depth, queue, queued)
             ELSE enqueue_pagination(links, i + 1, base_url, depth,
                                     Append(queue, [url |-> candidate, depth |-> depth + 1]),
                                     queued \cup {candidate_base})

CrawlInit ==
    /\ cpc = "loop"
    /\ cListing \in [url : {ListingUrl}, pagination_selector : BOOLEAN,
                     max_pages : 1..MaxPages]
    /\ cSite = [redirect |-> <<>>, content |-> <<>>]
    /\ cQueue = <<[url |-> cListing.url, depth |-> 0]>>
    /\ cQueued = {normalise_base_url(cListing.url)}
    /\ cSeen = {}
    /\ cArticles = {}
    /\ cProcessed = 0
    /\ cFetches = <<>>
    /\ ServiceIdle
    /\ DiscoverIdle
    /\ ExtractIdle
    /\ AnchorsIdle
    /\ OthersIdle
    /\ PageIdle
    /\ SitemapsIdle

CrawlLoop == cpc = "loop" /\ cQueue # <<>> /\ cProcessed < cListing.max_pages

next_page == Head(cQueue).url
normalised_next == normalise_base_url(next_page)

\* lines 933-939: the page taken from the queue was seen already
CrawlSeen ==
    /\ CrawlLoop
    /\ normalised_next \in cSeen
    /\ cQueue' = Tail(cQueue)
    /\ cQueued' = cQueued \ {normalised_next}
    /\ UNCHANGED <<cpc, cListing, cSite, cSeen, cArticles, cProcessed, cFetches, notCrawlVars>>

\* line 941: http.get raises, and the exception leaves _scrape_listing
CrawlFetchRaises ==
    /\ CrawlLoop
    /\ normalised_next \notin cSeen
    /\ cFetches' = Append(cFetches, [url |-> next_page, depth |-> Head(cQueue).depth,
                                     final |-> NoUrl])
    /\ cpc' = "raised"
    /\ cQueue' = Tail(cQueue)
    /\ cQueued' = cQueued \ {normalised_next}
    /\ UNCHANGED <<cListing, cSite, cSeen, cArticles, cProcessed, notCrawlVars>>

\* the answer of the site to a request for next_page: first asked, or as before
Answers ==
    {[final |-> final, pagination |-> pagination] :
        final \in (IF normalised_next \in DOMAIN cSite.redirect
                   THEN {cSite.redirect[normalised_next]} ELSE FinalsOf(next_page)),
        pagination \in Paginations}
Answered(answer) ==
    LET base_normalised == normalise_base_url(answer.final)
    IN  /\ base_normalised \in DOMAIN cSite.content
           => answer.pagination = cSite.content[base_normalised]
        /\ cSite' = [redirect |-> Extend(cSite.redirect, normalised_next, answer.final),
                     content |-> Extend(cSite.content, base_normalised, answer.pagination)]

\* lines 941-948: the page is fetched and ends on a page seen already
CrawlFetchDuplicate ==
    /\ CrawlLoop
    /\ normalised_next \notin cSeen
    /\ \E answer \in Answers :
          /\ Answered(answer)
          /\ normalise_base_url(answer.final) \in cSeen
          /\ cFetches' = Append(cFetches, [url |-> next_page, depth |-> Head(cQueue).depth,
                                           final |-> answer.final])
    /\ cProcessed' = cProcessed + 1
    /\ cQueue' = Tail(cQueue)
    /\ cQueued' = cQueued \ {normalised_next}
    /\ UNCHANGED <<cpc, cListing, cSeen, cArticles, notCrawlVars>>

\* lines 941-1000: the page is fetched, its links are taken, its pagination links queued
CrawlFetchPage ==
    /\ CrawlLoop
    /\ normalised_next \notin cSeen
    /\ \E answer \in Answers :
          LET base_url == answer.final
              base_normalised == normalise_base_url(base_url)
          IN  /\ Answered(answer)
              /\ base_normalised \notin cSeen
              /\ cFetches' = Append(cFetches, [url |-> next_page,
                                               depth |-> Head(cQueue).depth,
                                               final |-> base_url])
              /\ cArticles' = cArticles \cup PageUrls(base_url)
              /\ cSeen' = cSeen \cup {base_normalised, normalised_next}
              /\ LET after == IF cListing.pagination_selector
                              THEN enqueue_pagination(answer.pagination, 1, base_url,
                                                      Head(cQueue).depth, Tail(cQueue),
                                                      cQueued \ {normalised_next})
                              ELSE [queue |-> Tail(cQueue),
                                    queued |-> cQueued \ {normalised_next}]
                 IN  /\ cQueue' = after.queue
                     /\ cQueued' = after.queued
    /\ cProcessed' = cProcessed + 1
    /\ UNCHANGED <<cpc, cListing, notCrawlVars>>

\* lines 932 and 1001: the loop is over, article_urls is returned
CrawlReturn ==
    /\ cpc = "loop"
    /\ ~CrawlLoop
    /\ cpc' = "returned"
    /\ UNCHANGED <<cListing, cSite, cQueue, cQueued, cSeen, cArticles, cProcessed, cFetches,
                   notCrawlVars>>

CrawlNext ==
    \/ CrawlSeen
    \/ CrawlFetchRaises
    \/ CrawlFetchDuplicate
    \/ CrawlFetchPage
    \/ CrawlReturn

SpecCrawl == CrawlInit /\ [][CrawlNext]_vars

----------------------------------------------------------------------------
(* The configured-selector pass for one field: _populate_from_selectors    *)
(* and _extract_field over the narrowed document (content_soup) and the    *)
(* full document.  A selector is its position in the template's list for   *)
(* the field.  A document holds, for the field, what each selector matches *)
(* and what each fallback source holds.                                    *)

\* the text of the element only selector k matches; "x" is the text of an element
\* that every matching selector matches too
SelectorText == <<"s1", "s2", "s3">>
Matches(k) == {<<>>, <<SelectorText[k], "x">>}
Soups ==
    [text : {t \in [1..MaxSelectors -> {<<>>} \cup UNION {Matches(k) : k \in 1..MaxSelectors}] :
                \A k \in 1..MaxSelectors : t[k] \in Matches(k)},
     wprm : {<<>>, <<"wprm">>},
     microdata : {<<>>, <<"micro">>},
     semistructured : {<<>>, <<"semi", "semi">>}]
\* _derive_content_soup: content_soup is the full document or a subtree of it, and a
\* subtree holds nothing the full document does not hold
Narrows(content, full) ==
    /\ \A k \in 1..MaxSelectors : content.text[k] \in {<<>>, full.text[k]}
    /\ content.wprm \in {<<>>, full.wprm}
    /\ content.microdata \in {<<>>, full.microdata}
    /\ content.semistructured \in {<<>>, full.semistructured}
\* ArticleConfig.selectors_for(field): the first n selectors
SelectorLists == {[i \in 1..n |-> i] : n \in 0..MaxSelectors}
FieldNames == {"title", "image", "ingredients", "instructions", "categories"}

\* _extract_text_list(soup, selector)
extract_text_list(soup, selector) == soup.text[selector]
\* _extract_first_text(soup, selector), and _extract_image, of the first element
extract_first_text(soup, selector) ==
    IF soup.text[selector] = <<>> THEN PyNone ELSE PyStr(Head(soup.text[selector]))

\* lines 1421-1423: values.extend(...) over every selector of the list
RECURSIVE extend_text_lists(_, _)
extend_text_lists(selector_list, soup) ==
    IF selector_list = <<>> THEN <<>>
    ELSE extract_text_list(soup, Head(selector_list))
         \o extend_text_lists(Tail(selector_list), soup)
\* lines 1413-1418 and 1449-1453: the first selector with a result
RECURSIVE first_result(_, _)
first_result(selector_list, soup) ==
    IF selector_list = <<>> THEN PyNone
    ELSE IF Truthy(extract_first_text(soup, Head(selector_list)))
         THEN extract_first_text(soup, Head(selector_list))
         ELSE first_result(Tail(selector_list), soup)
\* the text list of the first selector of the list that matches
RECURSIVE first_text_list(_, _)
first_text_list(selector_list, soup) ==
    IF selector_list = <<>> THEN <<>>
    ELSE IF extract_text_list(soup, Head(selector_list)) # <<>>
         THEN extract_text_list(soup, Head(selector_list))
         ELSE first_text_list(Tail(selector_list), soup)

\* lines 1424-1439: the fallback sources of ingredients and instructions
fallback_lists(soup) ==
    IF soup.wprm # <<>> THEN [returned |-> TRUE, values |-> soup.wprm]
    ELSE IF soup.microdata # <<>> THEN [returned |-> TRUE, values |-> soup.microdata]
    ELSE [returned |-> FALSE, values |-> soup.semistructured]

\* _extract_field that takes the list of the first selector that matches
extract_field_first_selector(selector_list, soup, multiple, image, field_name) ==
    IF image \/ ~multiple THEN first_result(selector_list, soup)
    ELSE LET values == first_text_list(selector_list, soup)
         IN  IF values = <<>> /\ field_name \in {"ingredients", "instructions"}
             THEN (IF fallback_lists(soup).returned
                   THEN PyListValue(fallback_lists(soup).values)
                   ELSE PyListValue(dedupe_preserve_order(fallback_lists(soup).values)))
             ELSE PyListValue(dedupe_preserve_order(values))
\* _extract_field
extract_field_in(selector_list, soup, multiple, image, field_name) ==
    IF image \/ ~multiple THEN first_result(selector_list, soup)
    ELSE LET values == extend_text_lists(selector_list, soup)
         IN  IF values = <<>> /\ field_name \in {"ingredients", "instructions"}
             THEN (IF fallback_lists(soup).returned
                   THEN PyListValue(fallback_lists(soup).values)
                   ELSE PyListValue(dedupe_preserve_order(fallback_lists(soup).values)))
             ELSE PyListValue(dedupe_preserve_order(values))

\* bool(value) of what _extract_field returns
ValueTruthy(value) ==
    IF value.py = "list" THEN value.items # <<>> ELSE Truthy(value)
EmptyValue(field) == IF field \in ListFields THEN PyListValue(<<>>) ELSE PyNone

\* lines 1360-1362
soups_to_try(input) ==
    IF input.content # input.full THEN <<input.content, input.full>> ELSE <<input.content>>
extracted(input, k) ==
    extract_field_in(input.selector_list, soups_to_try(input)[k],
                     input.field \in ListFields, input.field = "image", input.field)

FieldsInit ==
    /\ ServiceIdle
    /\ DiscoverIdle
    /\ ExtractIdle
    /\ AnchorsIdle
    /\ FetchersIdle
    /\ LedgerIdle
    /\ fpc = "field"
    /\ fInput \in {input \in [field : FieldNames, selector_list : SelectorLists,
                               content : Soups, full : Soups, skip : BOOLEAN,
                               current : {"empty", "ld"}] :
                      Narrows(input.content, input.full)}
    /\ fValue = IF fInput.current = "empty" THEN EmptyValue(fInput.field)
                ELSE IF fInput.field \in ListFields THEN PyListValue(<<"ld">>)
                ELSE PyStr("ld")
    /\ fSoup = 0

\* lines 1365-1377: the field is skipped, has no selector, or has a value already
FieldsSkip ==
    /\ fpc = "field"
    /\ fInput.skip \/ fInput.selector_list = <<>> \/ ValueTruthy(fValue)
    /\ fpc' = "done"
    /\ UNCHANGED <<fInput, fValue, fSoup, notFieldVars>>

FieldsTried == fpc = "field" /\ ~fInput.skip /\ fInput.selector_list # <<>> /\ ~ValueTruthy(fValue)

\* lines 1379-1403: the first document with a value gives the field its value
FieldsSet ==
    /\ FieldsTried
    /\ \E k \in 1..Len(soups_to_try(fInput)) :
          /\ ValueTruthy(extracted(fInput, k))
          /\ \A j \in 1..(k - 1) : ~ValueTruthy(extracted(fInput, j))
          /\ fValue' = extracted(fInput, k)
          /\ fSoup' = k
    /\ fpc' = "done"
    /\ UNCHANGED <<fInput, notFieldVars>>

\* lines 1379-1403: no document has a value, the field stays as it is
FieldsLeave ==
    /\ FieldsTried
    /\ \A k \in 1..Len(soups_to_try(fInput)) : ~ValueTruthy(extracted(fInput, k))
    /\ fpc' = "done"
    /\ UNCHANGED <<fInput, fValue, fSoup, notFieldVars>>

FieldsNext == FieldsSkip \/ FieldsSet \/ FieldsLeave

SpecFields == FieldsInit /\ [][FieldsNext]_vars

----------------------------------------------------------------------------
(* Clients of the failure ledger.  Every call opens its own connection     *)
(* (_connection, repository.py:72-77), executes one statement and commits. *)
(* The table is InnoDB with UNIQUE KEY uniq_failure: a statement that      *)
(* writes a key waits while another connection holds an uncommitted write  *)
(* of that key, and then works on the committed row.                       *)

\* the tuples of template T1 the callers write: a short URL, a URL of 255 characters
\* or more, and that URL with the anchor of a recipe
LedgerTuples ==
    {<<"article", Url(1, 1, 0, FALSE)>>,
     <<"persist", Url(1, 2, 0, TRUE)>>,
     <<"persist", Anchored(Url(1, 2, 0, TRUE), 1)>>}
LedgerFailure(tuple) == ScrapeFailure("T1", tuple[1], tuple[2], {})
FailureKey(failure) == UniqFailure(failure.template_name, failure.stage, failure.source_url)
Writers == {1, 2}
NoRow == [id |-> 0]

LedgerInit ==
    /\ ServiceIdle
    /\ DiscoverIdle
    /\ ExtractIdle
    /\ AnchorsIdle
    /\ FetchersIdle
    /\ FieldsIdle
    /\ lpc = "calls"
    /\ lRows = {}
    /\ lCalls = [tuple \in LedgerTuples |-> 0]
    /\ lCount = 0
    /\ lWriters = <<>>
    /\ lRows0 = {}

\* record_failure, called alone
LedgerRecord ==
    /\ lpc = "calls" /\ lCount < MaxCalls
    /\ \E tuple \in LedgerTuples :
          /\ lRows' = record_failure(lRows, LedgerFailure(tuple))
          /\ lCalls' = [lCalls EXCEPT ![tuple] = @ + 1]
    /\ lCount' = lCount + 1
    /\ UNCHANGED <<lpc, lWriters, lRows0, notLedgerVars>>

\* resolve_failure, called alone
LedgerResolve ==
    /\ lpc = "calls" /\ lCount < MaxCalls
    /\ \E tuple \in LedgerTuples :
          lRows' = resolve_failure(lRows, "T1", tuple[1], tuple[2])
    /\ lCount' = lCount + 1
    /\ UNCHANGED <<lpc, lCalls, lWriters, lRows0, notLedgerVars>>

\* two writers call record_failure at the same time
LedgerRace ==
    /\ lpc = "calls"
    /\ \E t1, t2 \in LedgerTuples :
          /\ lWriters' = [w \in Writers |->
                            [pc |-> "call",
                             failure |-> LedgerFailure(IF w = 1 THEN t1 ELSE t2),
                             pending |-> NoRow]]
          /\ lCalls' = [tuple \in LedgerTuples |->
                           lCalls[tuple] + (IF tuple = t1 THEN 1 ELSE 0)
                                         + (IF tuple = t2 THEN 1 ELSE 0)]
    /\ lpc' = "race"
    /\ lRows0' = lRows
    /\ UNCHANGED <<lRows, lCount, notLedgerVars>>

\* the uncommitted rows of the writers other than w
Uncommitted(w) == {lWriters[v].pending : v \in {u \in Writers \ {w} : lWriters[u].pc = "executed"}}
\* the row the statement of w writes: inserted after the rows that exist, or updated
Written(w) ==
    LET after == record_failure(lRows \cup Uncommitted(w), lWriters[w].failure)
    IN  CHOOSE row \in after \ Uncommitted(w) : RowKey(row) = FailureKey(lWriters[w].failure)

\* cursor.execute(sql, params), line 225, without waiting for the key
writer_execute_unlocked(w) ==
    /\ lpc = "race" /\ lWriters[w].pc = "call"
    /\ lWriters' = [lWriters EXCEPT ![w].pc = "executed",
                                    ![w].pending =
                                        CHOOSE row \in record_failure(lRows, lWriters[w].failure) :
                                            RowKey(row) = FailureKey(lWriters[w].failure)]
    /\ UNCHANGED <<lpc, lRows, lCalls, lCount, lRows0, notLedgerVars>>
\* cursor.execute(sql, params), line 225
WriterExecute(w) ==
    /\ lpc = "race" /\ lWriters[w].pc = "call"
    /\ \A row \in Uncommitted(w) : RowKey(row) # FailureKey(lWriters[w].failure)
    /\ lWriters' = [lWriters EXCEPT ![w].pc = "executed", ![w].pending = Written(w)]
    /\ UNCHANGED <<lpc, lRows, lCalls, lCount, lRows0, notLedgerVars>>

\* connection.commit(), line 226
WriterCommit(w) ==
    /\ lpc = "race" /\ lWriters[w].pc = "executed"
    /\ lRows' = {row \in lRows : RowKey(row) # RowKey(lWriters[w].pending)}
                \cup {lWriters[w].pending}
    /\ lWriters' = [lWriters EXCEPT ![w].pc = "committed"]
    /\ UNCHANGED <<lpc, lCalls, lCount, lRows0, notLedgerVars>>

LedgerNext ==
    \/ LedgerRecord
    \/ LedgerResolve
    \/ LedgerRace
    \/ \E w \in Writers : WriterExecute(w)
    \/ \E w \in Writers : WriterCommit(w)

SpecLedger == LedgerInit /\ [][LedgerNext]_vars

----------------------------------------------------------------------------
(* Properties of run() and of the ledger, checked under Spec.              *)

\* the calls the last handler step made
StepSaves == SubSeq(saves, last.saves0 + 1, Len(saves))
StepScrapes == SubSeq(scrapes, last.scrapes0 + 1, Len(scrapes))

SameTuple(row, template_name, stage, source_url) ==
    row.template_name = template_name /\ row.stage = stage /\ row.source_url = source_url

Unresolved(rows, template_name, stage, source_url) ==
    \E row \in rows : SameTuple(row, template_name, stage, source_url) /\ ~row.resolved

\* a Recipe the orchestrator does not skip: it has a title or ingredients
Essential(recipe) == Truthy(recipe.title) \/ recipe.ingredients # <<>>

\* the last step made one scrape call, which returned recipes, one of them essential
StepExtracted ==
    /\ Len(StepScrapes) = 1
    /\ ~StepScrapes[1].res.raised
    /\ \E i \in 1..Len(StepScrapes[1].res.value.items) :
          Essential(StepScrapes[1].res.value.items[i])

\* C1: run() always terminates normally: no outcome of discover, scrape or save makes
\* run() raise.
C1_RunNeverRaises == phase # "raised"

OneRecordPerTuple(rows) ==
    \A r1, r2 \in rows :
        SameTuple(r1, r2.template_name, r2.stage, r2.source_url) => r1 = r2

\* the failures the service can hand to record_failure
ProbeFailures ==
    {ScrapeFailure(t.name, tuple[1], tuple[2], {}) :
        t \in {Templates[1], UnknownTemplate}, tuple \in PriorTuples(Templates[1])}

\* the ledger is the empty one or the last step produced it: every ledger a run reaches
\* is new in some state
LedgerIsNew == last.kind = "none" \/ ledger # last.ledger0

\* C2: after any sequence of record_failure and resolve_failure calls the ledger holds at
\* most one record per (template_name, stage, source_url); a record_failure for a tuple
\* that has a record adds no record, increments the record's attempt_count by one and
\* marks it unresolved.
C2_OneRecordPerTuple ==
    /\ OneRecordPerTuple(ledger)
    /\ \A f \in (IF LedgerIsNew THEN ProbeFailures ELSE {}) :
          LET after == record_failure(ledger, f)
          IN  /\ OneRecordPerTuple(after)
              /\ \A row \in ledger :
                    SameTuple(row, f.template_name, f.stage, f.source_url) =>
                        /\ Cardinality(after) = Cardinality(ledger)
                        /\ \E r2 \in after :
                              /\ r2.id = row.id
                              /\ SameTuple(r2, f.template_name, f.stage, f.source_url)
                              /\ r2.attempt_count = row.attempt_count + 1
                              /\ ~r2.resolved

\* a tuple was recorded, resolved and is about to be recorded again
C2_Witness ==
    /\ phase = "idle"
    /\ \E row \in ledger, f \in ProbeFailures :
          /\ SameTuple(row, f.template_name, f.stage, f.source_url)
          /\ row.resolved
          /\ last.kind = "prior_resolve"

\* C3: after an article URL was extracted successfully and saved, the ledger holds no
\* unresolved article or persist failure for (template, URL), in the normal pass and in
\* the replay of an article failure.
C3_SuccessResolvesFailures ==
    (/\ last.kind \in {"scrape_article", "replay_article"}
     /\ StepExtracted
     /\ \A j \in 1..Len(StepSaves) : ~StepSaves[j].raised)
    => /\ ~Unresolved(ledger, last.template, "article", last.url)
       /\ ~Unresolved(ledger, last.template, "persist", last.url)

HasPayload(failure) == \E kv \in failure.context : kv[1] = "recipe"

\* C4: replaying a persist failure whose context holds a recipe payload calls save once,
\* with a Recipe equal to the one recorded, and does not scrape; the failure is resolved
\* if save succeeds and recorded again with the same payload if save raises.
C4_ReplayPersistFromPayload ==
    (last.kind = "replay_persist" /\ HasPayload(last.failure))
    => /\ Len(StepSaves) = 1
       /\ last.orig = {StepSaves[1].value}
       /\ Len(StepScrapes) = 0
       /\ \A row \in ledger :
             row.id = last.failure.id =>
                IF StepSaves[1].raised
                THEN /\ ~row.resolved
                     /\ row.attempt_count = last.failure.attempt_count + 1
                     /\ row.context =
                           to_json_text({<<"recipe", as_record(StepSaves[1].value)>>})
                ELSE row.resolved

\* C4 for a failure whose record carries the source URL of its own payload
C4_ReplayPersistOwnUrl ==
    (/\ last.kind = "replay_persist" /\ HasPayload(last.failure)
     /\ \A r \in last.orig : r.source_url = last.failure.source_url)
    => C4_ReplayPersistFromPayload

\* C8: each of the k recipes extracted from a discovered URL is handed to save, or a
\* persist failure is recorded for it when save raises.
C8_EveryRecipeSaved ==
    (last.kind = "scrape_article" /\ StepExtracted)
    => \A i \in 1..Len(StepScrapes[1].res.value.items) :
          LET recipe == StepScrapes[1].res.value.items[i]
          IN  Essential(recipe) =>
                 \E j \in 1..Len(StepSaves) :
                    /\ StepSaves[j].value = recipe
                    /\ StepSaves[j].raised =>
                          Unresolved(ledger, last.template, "persist", recipe.source_url)

ListingRowsBefore ==
    {row \in last.ledger0 : row.template_name = last.template /\ row.stage = "listing"}

\* C12: every pending failure read from the ledger is replayed before the first discover
\* call; the replay of a pending listing failure makes no discover, scrape, save or ledger
\* call, and the failure is handled by the discover of the normal pass of its template:
\* resolved when discover returns, recorded once more when it raises.
C12_ReplayBeforeDiscover ==
    /\ discovers # <<>> => pending = {}
    /\ last.kind = "replay_listing"
       => /\ ledger = last.ledger0
          /\ Len(saves) = last.saves0 /\ Len(scrapes) = last.scrapes0
          /\ discovers = <<>>
    /\ last.kind = "discover"
       => \A row \in ListingRowsBefore :
             \E r2 \in ledger :
                /\ r2.id = row.id
                /\ IF discovers[Len(discovers)].raised
                   THEN ~r2.resolved /\ r2.attempt_count = row.attempt_count + 1
                   ELSE r2.resolved /\ r2.attempt_count = row.attempt_count

\* a run that replayed an article failure and a listing failure, and whose first discover
\* then resolved the listing failure
C12_Witness ==
    /\ last.kind = "discover" /\ Len(discovers) = 1 /\ ~discovers[1].raised
    /\ \E row \in ListingRowsBefore : ~row.resolved
    /\ \E k \in 1..Len(scrapes) : scrapes[k].where = "replay"

NormalScrapes(template_name, url) ==
    {k \in 1..Len(scrapes) : /\ scrapes[k].where = "normal"
                             /\ scrapes[k].template = template_name
                             /\ scrapes[k].url = url}

\* C9: when scrape raises for a discovered URL an article failure is recorded and the
\* loop goes on, so that every discovered URL is attempted exactly once in the pass.
C9_EveryUrlAttemptedOnce ==
    /\ (last.kind = "scrape_article" /\ StepScrapes[1].res.raised)
       => /\ Unresolved(ledger, last.template, "article", last.url)
          /\ phase = "running"
    /\ phase \in {"done", "raised"}
       => \A d \in 1..Len(discovers) : \A u \in discovers[d].urls :
             Cardinality(NormalScrapes(discovers[d].template, u)) = 1

\* C10: when discover raises, a listing failure keyed by the template's URL is recorded,
\* no article of the template is scraped in the normal pass and run() goes on to the next
\* template; when discover returns, no listing failure of the template stays unresolved.
C10_ListingFailures ==
    /\ (last.kind = "discover" /\ discovers[Len(discovers)].raised)
       => /\ Unresolved(ledger, last.template, "listing", last.url)
          /\ phase = "running" /\ pending = {} /\ urlsLeft = <<>>
    /\ \A k \in 1..Len(scrapes) :
          scrapes[k].where = "normal"
          => \E d \in 1..Len(discovers) :
                /\ discovers[d].template = scrapes[k].template
                /\ ~discovers[d].raised
                /\ scrapes[k].url \in discovers[d].urls
    /\ \A d \in 1..Len(discovers) :
          ~discovers[d].raised
          => ~\E row \in ledger : /\ row.template_name = discovers[d].template
                                  /\ row.stage = "listing"
                                  /\ ~row.resolved
    /\ phase = "done" => Len(discovers) = Len(Templates)

\* a pending listing failure of T1 was resolved by its discover, T2's discover raised and
\* run() came to its end
C10_Witness ==
    /\ phase = "done"
    /\ ~discovers[1].raised /\ discovers[2].raised
    /\ \E row \in ledger : SameTuple(row, "T1", "listing", Templates[1].url) /\ row.resolved
    /\ Unresolved(ledger, "T2", "listing", Templates[2].url)

ReplayKinds == {"replay_unknown", "replay_article", "replay_persist", "replay_listing"}

\* C29: the replay works on the pending failures read when it starts; each of them is
\* retried at most once in the run, and a failure recorded or recorded again during
\* the replay does not join them, so that the replay comes to an end also when every
\* retry fails; a pending failure of an unknown template is skipped and the ledger is
\* left as it is.  Checked under SpecReplay.
C29_ReplayOnSnapshot ==
    /\ [][/\ (phase = "idle" /\ phase' = "running") => pending' = iter_pending_failures(ledger)
          /\ phase = "running" =>
                /\ pending' \subseteq pending
                /\ (pending' # pending \/ last'.kind \in ReplayKinds) =>
                      /\ last'.kind \in ReplayKinds
                      /\ last'.failure \in pending
                      /\ pending' = pending \ {last'.failure}
                      /\ discovers = <<>>
                /\ last'.kind = "replay_unknown" =>
                      /\ last'.failure.template_name \notin TemplateNames
                      /\ ledger' = ledger /\ saves' = saves /\ scrapes' = scrapes]_vars
    /\ (phase = "running") ~> (pending = {} \/ phase = "raised")

\* the retry of an article failure failed and recorded the failure once more; the
\* replay is over and the failure, unresolved in the ledger, is pending no more
C29_Witness ==
    /\ phase = "running" /\ pending = {} /\ discovers = <<>>
    /\ last.kind = "replay_article"
    /\ \E row \in ledger :
          /\ row.id = last.failure.id
          /\ ~row.resolved
          /\ row.attempt_count = last.failure.attempt_count + 1

----------------------------------------------------------------------------
(* Properties of discover, checked under SpecDiscover.                     *)

\* every strategy that ran yielded no URL
AllYieldedNothing == \A k \in 1..Len(dYields) : dYields[k].urls = {}
\* a strategy met an error: a listing crawl raised or a sitemap fetch raised
SomeStrategyErrored == \E k \in 1..Len(dYields) : dYields[k].raised

ListingCrawls == {k \in 1..Len(dYields) : dYields[k].strategy = "listing"}

\* C16: with sitemaps enabled the sitemap pass is over before any listing spec is
\* crawled, every listing spec is crawled whatever the sitemap pass found, and the
\* set discover returns is the union of the sitemap URLs and the listing URLs.
C16_SitemapsThenEveryListing ==
    dTemplate.enable_sitemaps =>
        /\ dpc # "sitemaps" => (dYields # <<>> /\ dYields[1].strategy = "sitemaps")
        /\ \A k \in ListingCrawls : k > 1
        /\ dpc \in {"returned", "raised"} => Cardinality(ListingCrawls) = dTemplate.listings
        /\ dpc = "returned" => dResult = UNION {dYields[k].urls : k \in 1..Len(dYields)}

\* discover returned after a sitemap pass that found URLs and two listing crawls,
\* one of which added a URL the sitemaps did not have
C16_Witness ==
    /\ dpc = "returned"
    /\ dTemplate.enable_sitemaps
    /\ dYields[1].urls # {}
    /\ Cardinality(ListingCrawls) = MaxListings
    /\ \E k \in ListingCrawls : ~(dYields[k].urls \subseteq dYields[1].urls)

\* a listing crawl raised
ListingRaised == \E k \in ListingCrawls : dYields[k].raised

\* C21: a fetch error while crawling one listing spec does not stop discover: every
\* listing spec is crawled, what the sitemap pass and the other listing specs found
\* is returned, and discover raises only if the final URL set is empty.
C21_ListingErrorDoesNotStop ==
    (ListingRaised /\ dpc \in {"returned", "raised"}) =>
        /\ Cardinality(ListingCrawls) = dTemplate.listings
        /\ IF UNION {dYields[k].urls : k \in 1..Len(dYields)} = {}
           THEN dpc = "raised"
           ELSE /\ dpc = "returned"
                /\ dResult = UNION {dYields[k].urls : k \in 1..Len(dYields)}

\* the first listing crawl raised, the second one gave URLs, and discover returned
\* them with those of the sitemap pass
C21_Witness ==
    /\ dpc = "returned"
    /\ dTemplate.enable_sitemaps
    /\ Len(dYields) = 3
    /\ dYields[1].urls # {}
    /\ dYields[2].raised
    /\ dYields[3].urls # {} /\ dYields[3].urls # dYields[1].urls
    /\ dResult = dYields[1].urls \cup dYields[3].urls

----------------------------------------------------------------------------
(* Properties of scrape, checked under SpecExtract.                        *)

\* the candidate of xCandidates[k] kept the first value of the field
KeptFirst(cand, field) ==
    FieldTruthy(cand.filled, field) => cand.recipe[field] = cand.filled[field]

\* what the structured-data pass gave the candidate
StructuredOf(cand) ==
    IF cand.index < Len(xPage.structured)
    THEN populate_from_structured(NewCandidate(xPage), xPage.structured[cand.index + 1])
    ELSE NewCandidate(xPage)

KeptStructured(cand, field) ==
    FieldTruthy(StructuredOf(cand), field) => cand.recipe[field] = StructuredOf(cand)[field]

\* the candidates whose recipes scrape returned
Returned == {k \in 1..Len(xCandidates) :
                xpc = "returned" /\ \E j \in 1..Len(xRecipes) : xRecipes[j] = xCandidates[k].recipe}

SectionPreferred == IF multi_mode(xPage) THEN {"title", "image"} ELSE {}

\* the value the section of the candidate has for a field it is preferred for
SectionValue(index, field) ==
    IF index >= Len(xPage.sections) THEN PyNone
    ELSE IF field = "title" THEN xPage.sections[index + 1].title
    ELSE resolve_section_image(xPage.sections[index + 1], xPage.url)

Listless(recipe) == Len(recipe.ingredients) = 0 /\ Len(recipe.instructions) = 0

\* the recipes of the candidates that list something, in candidate order
RECURSIVE Listing(_)
Listing(cands) ==
    IF cands = <<>> THEN <<>>
    ELSE LET front == Listing(SubSeq(cands, 1, Len(cands) - 1))
             cand == cands[Len(cands)]
         IN  IF Listless(cand.recipe) THEN front ELSE Append(front, cand.recipe)

OwnNodeList(page, index, field) ==
    IF index < Len(page.structured)
    THEN (IF field = "ingredients"
          THEN normalise_sequence(page.structured[index + 1].recipeIngredient)
          ELSE normalise_instructions(page.structured[index + 1].recipeInstructions))
    ELSE <<>>

OwnSectionList(page, index, field) ==
    IF index < Len(page.sections)
    THEN dedupe_preserve_order(page.sections[index + 1][field])
    ELSE <<>>

OwnList(page, index, field) ==
    IF OwnNodeList(page, index, field) # <<>> THEN OwnNodeList(page, index, field)
    ELSE OwnSectionList(page, index, field)

IsReturned(recipe) == \E k \in 1..Len(xRecipes) : xRecipes[k] = recipe

\* C14: when recipeCount > 1, the ingredients and the instructions of every returned
\* Recipe are those of the structured node of its own index, else those of the
\* section of its own index, and never a value of the configured selectors or of
\* the selector-driven fallbacks.
C14_ListsFromOwnNodeOrSection ==
    multi_mode(xPage) =>
        \A k \in 1..Len(xCandidates) :
            LET candidate == xCandidates[k]
            IN  IsReturned(candidate.recipe) =>
                    \A field \in {"ingredients", "instructions"} :
                        /\ candidate.recipe[field] = OwnList(xPage, candidate.index, field)
                        /\ \A i \in 1..Len(candidate.recipe[field]) :
                               candidate.recipe[field][i] # "sel"

\* two recipes are returned from a page whose selectors offer every field; one of them
\* has no ingredients of its own and keeps none
C14_Witness ==
    /\ xpc = "returned"
    /\ multi_mode(xPage)
    /\ xPage.selected = AllFields
    /\ Len(xRecipes) = 2
    /\ \E k \in 1..2 : xRecipes[k].ingredients = <<>> /\ xRecipes[k].instructions # <<>>
    /\ \E k \in 1..2 : xRecipes[k].ingredients # <<>>

\* C22: every non-empty image of a Recipe returned by extract is an absolute URL,
\* whichever tier supplied it: structured data, configured selector, section of the
\* document or generic fallback.
C22_ReturnedImagesAbsolute ==
    xpc = "returned" =>
        \A k \in 1..Len(xRecipes) :
            Truthy(xRecipes[k].image) => IsAbsolute(xRecipes[k].image)

----------------------------------------------------------------------------
(* Properties of the anchors, checked under SpecAnchors.                   *)

PairwiseDistinct(urls) ==
    \A i, j \in 1..Len(urls) : i # j => urls[i] # urls[j]

\* C13 as stated: the source URLs of one multi-recipe extract call are pairwise
\* distinct, and each is the final URL with its fragment stripped, followed by
\* '#' and an anchor.
C13_DistinctAnchoredUrls ==
    /\ PairwiseDistinct(aSourceUrls)
    /\ \A i \in 1..Len(aSourceUrls) :
          /\ aSourceUrls[i].frag # NoFragment
          /\ [aSourceUrls[i] EXCEPT !.frag = NoFragment] = [aUrl EXCEPT !.frag = NoFragment]

\* C13 amended: the source URLs of one multi-recipe extract call are pairwise
\* distinct, and each is the final URL with its fragment and its trailing '/'
\* stripped, followed by '#' and a non-empty anchor.
C13_DistinctAnchoredBaseUrls ==
    /\ PairwiseDistinct(aSourceUrls)
    /\ \A i \in 1..Len(aSourceUrls) :
          /\ aSourceUrls[i].frag # NoFragment
          /\ [aSourceUrls[i] EXCEPT !.frag = NoFragment]
                = [aUrl EXCEPT !.frag = NoFragment, !.slash = FALSE]

\* ids a, a and a-2: the second is de-duplicated to a-2, which the third id collides with
C13_Witness ==
    /\ Len(aCandidates) = 3
    /\ Len(aSourceUrls) = 3
    /\ aUrl.slash
    /\ aCandidates[1].section.anchor = PyStr("a")
    /\ aCandidates[2].section.anchor = PyStr("a")
    /\ aCandidates[3].section.anchor = PyStr("a-2")
    /\ aSourceUrls[1].frag = <<"a">>
    /\ aSourceUrls[2].frag = <<"a", "2">>
    /\ aSourceUrls[3].frag = <<"a", "2", "2">>

----------------------------------------------------------------------------
(* Properties of one listing page, checked under SpecPage.                 *)

\* the registered domain of a host: lower case, without a leading "www."
RegisteredDomain(host) ==
    IF host \in {"www.example.com", "Example.com"} THEN "example.com" ELSE host

OnTemplateDomain(url) == RegisteredDomain(url.host) = RegisteredDomain(TemplateUrl.host)

\* C19: every URL discover takes from a page is on the template's domain, whether
\* the link selector or the JSON-LD fallback produced it.
C19_OnTemplateDomain == \A url \in pUrls : OnTemplateDomain(url)

\* the links of the link selector that the acceptance rule lets through
SelectorAccepted ==
    {absolute \in {urljoin(pPage.base_url, href) : href \in pPage.links} :
        should_include_url(TemplateUrl, ListingUrl, absolute)}

\* the node is untyped or has one of the six types
TypedAsContent(node) ==
    \/ node.type = PyNone
    \/ /\ node.type.py = "str"
       /\ node.type.s \in {"Recipe", "Article", "BlogPosting", "NewsArticle", "HowTo",
                           "CreativeWork"}
    \/ /\ node.type.py = "list"
       /\ \E i \in 1..Len(node.type.items) :
             node.type.items[i] \in {"Recipe", "Article", "BlogPosting", "NewsArticle",
                                    "HowTo", "CreativeWork"}

NodeUrl(node) == urljoin(pPage.base_url, node.value)

\* the url/@id of a node of another explicit type, which no node of the six types
\* carries, is not returned; the fallback is left alone when the selector gave a link
OtherTypesNeverReturned ==
    /\ \A node \in pPage.nodes :
          (~TypedAsContent(node)
             /\ \A other \in pPage.nodes : TypedAsContent(other) => NodeUrl(other) # NodeUrl(node))
          => NodeUrl(node) \notin pUrls
    /\ SelectorAccepted # {} => (~pConsulted /\ pUrls = SelectorAccepted)

C28_SameDomainByWwwPrefix ==
    pConsulted =>
        \A node \in pPage.nodes :
            LET candidate == urljoin(pPage.base_url, node.value)
            IN  same_domain(pPage.base_url, candidate)
                  <=> RegisteredDomain(candidate.host) = RegisteredDomain(pPage.base_url.host)

----------------------------------------------------------------------------
(* Properties of the sitemap pass, checked under SpecSitemaps.             *)

Fetched(sitemap_url) == \E k \in 1..Len(mFetches) : mFetches[k] = sitemap_url

\* the URLs a sitemap document lists that are not sitemaps themselves
LeafUrls(sitemap_url) ==
    LET locs == mSite.docs[sitemap_url].locs
    IN  {locs[i] : i \in {j \in 1..Len(locs) : ~ends_with_xml(locs[j])}}

\* a sitemap listed by a fetched document
IsChildSitemap(sitemap_url) ==
    \E parent \in SitemapUrls :
        /\ Fetched(parent)
        /\ \E i \in 1..Len(mSite.docs[parent].locs) : mSite.docs[parent].locs[i] = sitemap_url

UnderStorageWithKeyword(sitemap_url) ==
    /\ under_storage(sitemap_url)
    /\ PathWords(sitemap_url) \cap STORAGE_SITEMAP_EXCLUDE_KEYWORDS # {}

\* the sitemap is never fetched, and a URL that only unfetched sitemaps list is not
\* returned
NeverFetched(sitemap_url) ==
    /\ ~Fetched(sitemap_url)
    /\ \A leaf \in LeafUrls(sitemap_url) :
          (\A other \in SitemapUrls : Fetched(other) => leaf \notin LeafUrls(other))
          => leaf \notin mArticles

\* C17 as stated: a child sitemap whose path lies under /storage/ and contains one of
\* the keywords is never fetched and none of its leaf URLs is returned.
C17_StorageSitemapsSkipped ==
    \A sitemap_url \in SitemapUrls :
        (IsChildSitemap(sitemap_url) /\ UnderStorageWithKeyword(sitemap_url))
        => NeverFetched(sitemap_url)

\* C17 amended: a child sitemap whose path lies under /storage/, contains one of the
\* keywords and does not contain "recipe" is never fetched, and none of the URLs that
\* only such sitemaps list is returned.
C17_NonRecipeStorageSitemapsSkipped ==
    \A sitemap_url \in SitemapUrls :
        (/\ IsChildSitemap(sitemap_url)
         /\ UnderStorageWithKeyword(sitemap_url)
         /\ ~mentions_recipe(sitemap_url))
        => NeverFetched(sitemap_url)

\* the pass is over: the index listed /storage/recipes-1.xml and /storage/pages-1.xml,
\* the first was fetched and gave its URLs, the second was not
C17_Witness ==
    /\ mpc = "returned"
    /\ IsChildSitemap(StoragePages)
    /\ ~Fetched(StoragePages)
    /\ Fetched(StorageRecipes)
    /\ ArticlePage("a2") \in mArticles
    /\ ArticlePage("p1") \notin mArticles

\* C18: no URL the sitemap pass returns equals, after stripping its fragment and
\* trailing slash, the normalised listing URL or the normalised template root URL.
C18_NeverListingOrRoot ==
    \A url \in mArticles :
        normalise_base_url(url)
            \notin {normalise_base_url(ListingUrl), normalise_base_url(TemplateUrl)}

\* no sitemap URL is handed to http.get twice
SitemapFetchedOnce == \A i, j \in 1..Len(mFetches) : i # j => mFetches[i] # mFetches[j]

\* C26: the sitemap pass fetches each sitemap URL at most once per call, comes to an
\* end also when sitemap indexes refer to each other or to themselves, and never holds
\* more than sitemap_max_urls article URLs.  Checked under SpecSitemapsLive.
C26_SitemapPassBounded ==
    /\ [](SitemapFetchedOnce /\ Cardinality(mArticles) <= mSite.sitemap_max_urls)
    /\ <>(mpc = "returned")

\* the pass returned at the cap with sitemaps still queued, on a site whose sitemap.xml
\* lists itself and whose indexes list one sitemap twice
C26_Witness ==
    /\ mpc = "returned"
    /\ mSite.docs[SitemapUrl("example.com", <<"sitemap.xml">>)] = IndexOfOthers
    /\ mSite.docs[SitemapUrl("example.com", <<"sitemap-index.xml">>)] = IndexOfOthers
    /\ mSite.sitemap_max_urls = MaxSitemapUrls
    /\ Cardinality(mArticles) = MaxSitemapUrls
    /\ mQueue # <<>>

----------------------------------------------------------------------------
(* Properties of the crawl of one listing spec, checked under SpecCrawl.   *)

\* pages are fetched in the order of their distance from the listing URL
BreadthFirst ==
    \A i, j \in 1..Len(cFetches) : i < j => cFetches[i].depth <= cFetches[j].depth

\* no page, taken without fragment and trailing slash, is asked for twice
FetchedOnce ==
    \A i, j \in 1..Len(cFetches) :
        i # j => normalise_base_url(cFetches[i].url) # normalise_base_url(cFetches[j].url)

\* C15: for a listing spec with a pagination selector, the crawl is breadth-first from
\* the listing URL, fetches no page twice, makes at most maxPages fetches, and returns
\* the union of the accepted links of all fetched pages.
C15_PaginationCrawl ==
    cListing.pagination_selector =>
        /\ BreadthFirst
        /\ FetchedOnce
        /\ Len(cFetches) <= cListing.max_pages
        /\ cpc = "returned" =>
              cArticles = UNION {PageUrls(cFetches[k].final) : k \in 1..Len(cFetches)}

\* the step fetched a page and scanned its pagination links
ScannedPage == cpc = "loop" /\ cSeen' # cSeen /\ cListing.pagination_selector
ScanBase == cFetches'[Len(cFetches')].final
ScanLinks == cSite'.content[normalise_base_url(ScanBase)]
ScanCandidate(i) == urljoin(ScanBase, ScanLinks[i])
ScanCandidateBase(i) == normalise_base_url(ScanCandidate(i))
OnListingDomain(i) == same_domain(cListing.url, ScanCandidate(i))
\* the queue entries the scan added
NewlyQueued == SubSeq(cQueue', Len(cQueue), Len(cQueue'))
\* link i points to a page that was seen or queued before the scan
KnownBefore(i) ==
    ScanCandidateBase(i) \in cSeen' \cup (cQueued \ {normalise_base_url(Head(cQueue).url)})
\* when link i is met its page has been seen or queued already
Repeated(i) ==
    OnListingDomain(i) /\ (KnownBefore(i) \/ \E k \in 1..(i - 1) :
                                                ScanCandidateBase(k) = ScanCandidateBase(i))
\* link i put its page on the queue
Enqueued(i) ==
    /\ \E k \in 1..Len(NewlyQueued) : NewlyQueued[k].url = ScanCandidate(i)
    /\ \A k \in 1..(i - 1) : ScanCandidateBase(k) # ScanCandidateBase(i)

\* C23: while the pagination links of one listing page are scanned in document order,
\* once a link whose normalised URL has already been seen or queued is met, no later
\* pagination link of that page is enqueued, even one that points to an unseen page.
C23_StopsAtFirstRepeat ==
    [][ScannedPage =>
          \A i, j \in 1..Len(ScanLinks) : (i < j /\ Repeated(i)) => ~Enqueued(j)]_vars

\* C23 as the code has it: a link to a page already seen or queued is passed over and
\* the scan goes on; every link of the page to a page of the listing's domain that is
\* neither seen nor queued is enqueued, once, in document order, whatever came before.
C23_SkipsRepeatsAndGoesOn ==
    [][ScannedPage =>
          /\ \A i \in 1..Len(ScanLinks) :
                (OnListingDomain(i) /\ ~Repeated(i)) <=> Enqueued(i)
          /\ \A k \in 1..Len(NewlyQueued) :
                \E i \in 1..Len(ScanLinks) : Enqueued(i) /\ NewlyQueued[k].url = ScanCandidate(i)
          /\ \A k, m \in 1..Len(NewlyQueued) :
                k < m => \E i, j \in 1..Len(ScanLinks) :
                            /\ i < j
                            /\ NewlyQueued[k].url = ScanCandidate(i)
                            /\ NewlyQueued[m].url = ScanCandidate(j)]_vars

\* a page was scanned whose first pagination link leads back to the listing page and
\* whose second link leads to a page not met before; the second page is on the queue
C23_Witness ==
    /\ Len(cFetches) = 1
    /\ cListing.pagination_selector
    /\ normalise_base_url(cFetches[1].final) \in DOMAIN cSite.content
    /\ cSite.content[normalise_base_url(cFetches[1].final)]
          = <<[ListingUrl EXCEPT !.host = ""], PageNumber("2")>>
    /\ cSeen = {normalise_base_url(ListingUrl)}
    /\ Len(cQueue) = 1
    /\ cQueue[1].url = PageNumber("2")

----------------------------------------------------------------------------
(* Properties of the configured-selector pass, checked under SpecFields.   *)

\* the pass gave the field a value
FieldSet == fpc = "done" /\ fSoup > 0
\* the document that gave the value
UsedSoup == soups_to_try(fInput)[fSoup]
\* selector k of the list matches something in the document
Yields(soup, k) == soup.text[fInput.selector_list[k]] # <<>>
SomeSelectorYields(soup) == \E k \in 1..Len(fInput.selector_list) : Yields(soup, k)
\* the first selector of the list that matches something in the document
FirstYielding(soup) ==
    CHOOSE k \in 1..Len(fInput.selector_list) :
        Yields(soup, k) /\ \A j \in 1..(k - 1) : ~Yields(soup, j)
Items(list) == {list[k] : k \in 1..Len(list)}
Position(list, item) == CHOOSE k \in 1..Len(list) : list[k] = item
NoDuplicates(list) == \A k, m \in 1..Len(list) : k # m => list[k] # list[m]
\* the value came from the selectors, not from a fallback source
FromSelectors == FieldSet /\ SomeSelectorYields(UsedSoup)

\* the document holds nothing the pass takes for the field
HoldsNothing(soup) ==
    /\ ~SomeSelectorYields(soup)
    /\ fInput.field \in {"ingredients", "instructions"} =>
          soup.wprm = <<>> /\ soup.microdata = <<>> /\ soup.semistructured = <<>>

\* C24: in the configured-selector pass the selectors of a field are tried in order on
\* the narrowed document and then on the full document, and the value of the field is
\* the result of the first selector that yields something; the selectors after it
\* contribute nothing, for scalar fields and for list fields alike.
C24_FirstSelectorOnly ==
    FromSelectors =>
        /\ \A j \in 1..(fSoup - 1) : ~SomeSelectorYields(soups_to_try(fInput)[j])
        /\ IF fInput.field \in ListFields
           THEN Items(fValue.items)
                  = Items(UsedSoup.text[fInput.selector_list[FirstYielding(UsedSoup)]])
           ELSE fValue = PyStr(Head(UsedSoup.text[fInput.selector_list[FirstYielding(UsedSoup)]]))

\* C24 as the code has it: a scalar or image field takes the result of the first
\* selector of its list that yields something on the document; a list field takes the
\* results of all the selectors of its list on that document, in the order of the
\* list, each text once.  The document is the narrowed one unless it holds nothing
\* for the field (no selector yields there, nor for ingredients and instructions a
\* fallback source), then the full one.
C24_ListFieldsTakeEverySelector ==
    /\ (fpc = "done" /\ fSoup = 0 /\ ~fInput.skip /\ fInput.current = "empty") =>
          \A j \in 1..Len(soups_to_try(fInput)) : ~SomeSelectorYields(soups_to_try(fInput)[j])
    /\ (FieldSet /\ fSoup = 2) => HoldsNothing(fInput.content)
    /\ (FieldSet /\ fSoup = 1) => ~HoldsNothing(fInput.content)
    /\ FromSelectors =>
        /\ \A j \in 1..(fSoup - 1) : ~SomeSelectorYields(soups_to_try(fInput)[j])
        /\ IF fInput.field \in ListFields
           THEN /\ Items(fValue.items)
                     = UNION {Items(UsedSoup.text[fInput.selector_list[k]]) :
                                 k \in 1..Len(fInput.selector_list)}
                /\ NoDuplicates(fValue.items)
                /\ \A k, m \in 1..Len(fInput.selector_list) :
                      (k < m /\ Yields(UsedSoup, k) /\ Yields(UsedSoup, m)) =>
                          Position(fValue.items, SelectorText[fInput.selector_list[k]])
                            < Position(fValue.items, SelectorText[fInput.selector_list[m]])
           ELSE fValue = PyStr(Head(UsedSoup.text[fInput.selector_list[FirstYielding(UsedSoup)]]))

\* a list field whose two selectors both match on the full document only, and a scalar
\* field in the same case
C24_Witness ==
    /\ FromSelectors
    /\ fSoup = 2
    /\ Len(fInput.selector_list) = 2
    /\ Yields(UsedSoup, 1) /\ Yields(UsedSoup, 2)
    /\ fInput.field = "categories"
    /\ fValue = PyListValue(<<"s1", "x", "s2">>)

\* what the page holds for a source: what the narrowed document holds, else what the
\* full document holds
OfPage(source(_)) ==
    IF source(fInput.content) # <<>> THEN source(fInput.content) ELSE source(fInput.full)
SelectorSource(soup) == extend_text_lists(fInput.selector_list, soup)
WprmSource(soup) == soup.wprm
MicrodataSource(soup) == soup.microdata
SemistructuredSource(soup) == soup.semistructured
\* the first source of the priority order that holds something
ChosenSource ==
    IF OfPage(SelectorSource) # <<>> THEN OfPage(SelectorSource)
    ELSE IF OfPage(WprmSource) # <<>> THEN OfPage(WprmSource)
    ELSE IF OfPage(MicrodataSource) # <<>> THEN OfPage(MicrodataSource)
    ELSE OfPage(SemistructuredSource)

\* C25: for ingredients and instructions of a single recipe without structured data,
\* the value comes from exactly one source, chosen by priority: configured selectors,
\* WPRM fallback blocks, microdata itemprops, heading-driven text; a source is used
\* only when every source before it is empty, and sources are never mixed.
C25_OneSourceByPriority ==
    (/\ fpc = "done"
     /\ fInput.field \in {"ingredients", "instructions"}
     /\ ~fInput.skip /\ fInput.current = "empty" /\ fInput.selector_list # <<>>)
        => Items(fValue.items) = Items(ChosenSource)

----------------------------------------------------------------------------
(* Properties of the failure ledger under its callers, checked under       *)
(* SpecLedger.                                                             *)

\* the rows of a tuple
RowsOf(rows, tuple) == {row \in rows : SameTuple(row, "T1", tuple[1], tuple[2])}
\* attempt_count of the tuple's row, 0 without one
CountOf(rows, tuple) ==
    IF RowsOf(rows, tuple) = {} THEN 0
    ELSE (CHOOSE row \in RowsOf(rows, tuple) : TRUE).attempt_count
TupleOf(failure) == <<failure.stage, failure.source_url>>
BothCommitted == lpc = "race" /\ \A w \in Writers : lWriters[w].pc = "committed"
\* no call is under way
Quiet == lpc = "calls" \/ BothCommitted

\* C27: when two writers call record_failure at the same time for the same (template,
\* stage, url), then in every interleaving the ledger ends with exactly one record for
\* the tuple, unresolved, whose attempt_count accounts for both calls.
C27_ConcurrentWritersOneRecord ==
    (BothCommitted /\ lWriters[1].failure = lWriters[2].failure) =>
        LET tuple == TupleOf(lWriters[1].failure)
        IN  /\ Cardinality(RowsOf(lRows, tuple)) = 1
            /\ \A row \in RowsOf(lRows, tuple) : ~row.resolved
            /\ CountOf(lRows, tuple) = CountOf(lRows0, tuple) + 2

\* the key of the tuple is the key of no row of another tuple
OwnKey(rows, tuple) ==
    \A row \in rows :
        RowKey(row) = UniqFailure("T1", tuple[1], tuple[2]) => row \in RowsOf(rows, tuple)
\* the same for two writers whose tuple shares its key with no other row
ConcurrentWritersOwnKey ==
    (/\ BothCommitted /\ lWriters[1].failure = lWriters[2].failure
     /\ OwnKey(lRows0, TupleOf(lWriters[1].failure)))
        => C27_ConcurrentWritersOneRecord

\* C30: attempt_count of a record never decreases and is not reset by resolve_failure;
\* after any sequence of calls it is the number of record_failure calls made for the
\* record's tuple, also across resolve/fail cycles; resolve_failure for a tuple without
\* a record creates no record and changes no other record.
C30_AttemptCountCountsCalls ==
    /\ [][\A row \in lRows : \A after \in lRows' :
              after.id = row.id => after.attempt_count >= row.attempt_count]_vars
    /\ [](Quiet =>
            /\ \A tuple \in LedgerTuples : CountOf(lRows, tuple) = lCalls[tuple]
            /\ \A tuple \in LedgerTuples :
                  RowsOf(lRows, tuple) = {} =>
                      resolve_failure(lRows, "T1", tuple[1], tuple[2]) = lRows)

\* the count of a record is the number of calls made for the keys it answers to
CountsCallsOfKey ==
    Quiet =>
        \A row \in lRows :
            row.attempt_count
              = lCalls[<<row.stage, row.source_url>>]
                + (IF \E tuple \in LedgerTuples :
                         /\ tuple # <<row.stage, row.source_url>>
                         /\ UniqFailure("T1", tuple[1], tuple[2]) = RowKey(row)
                   THEN lCalls[CHOOSE tuple \in LedgerTuples :
                                  /\ tuple # <<row.stage, row.source_url>>
                                  /\ UniqFailure("T1", tuple[1], tuple[2]) = RowKey(row)]
                   ELSE 0)

====
